---- MODULE Spec2Model ----
(***************************************************************************)
(* Model of the I24 serial fixed-target chip manager (mx_bluesky):         *)
(*   - the motion facade        moveto                                     *)
(*   - the calibration engine   cs_maker, cs_reset and the files they read *)
(*   - the addressing engine    get_format, pathli, zippum,                *)
(*                              get_alphanumeric, get_shot_order, get_xy   *)
(*   - the start-up             write_parameter_file, check_files,         *)
(*                              write_headers, run                         *)
(*   - the zebra set-up plans   setup_zebra_plans.py                       *)
(*                                                                         *)
(* Hardware I/O (caget, caput, sleep) is recorded as the sequence of calls *)
(* the running operation makes.  Numbers:                                  *)
(*   lengths, stage targets, numeric control-point values: units of 1e-4   *)
(*   sines and cosines:                                   units of 1e-3    *)
(*   sine and cosine of the skew half-angle:              units of 1e-9    *)
(*   coordinate-system factors:                           units of 1e-3    *)
(*   sleeps:                                              milliseconds     *)
(*   zebra times:                                         units of 1e-4 s  *)
(* A float is a record [nan, neg, mag]: NaN, or sign and magnitude of the  *)
(* fixed-point value.                                                      *)
(***************************************************************************)
EXTENDS Integers, Sequences, FiniteSets, TLC

VARIABLES
    gp1,              \* control point me14e_gp1: the current chip type code
    gp103,            \* control point me14e_gp103: laser 1 burn time (ms)
    gp109,            \* control point me14e_gp109: laser 2 burn time (ms)
    motor_direction,  \* parameter file motor_direction.txt: its lines
    fiducial_file,    \* parameter files fiducial_1.txt, fiducial_2.txt
    calls,            \* hardware I/O calls made by the last operation, in order
    raised,           \* the exception that ended the last operation, or "none"
    last_op,          \* <<name, argument>> of the last operation
    a_chip,           \* addressing: chip type identifier handed to the engine
    a_pos,            \* addressing: 1-based position in the shot order
    a_addr,           \* addressing: the address at a_pos, and its successor
    a_xy,             \* addressing: what get_xy returned for those two
    parameters_txt,   \* start-up: the values held by parameters.txt
    disk,             \* start-up: path |-> content of what is under chips/
    e_call,           \* addressing: the last call of a function of the engine
    e_result,         \* addressing: what that call returned or raised
    z_call,           \* zebra: the plan the run engine was handed last
    z_plan,           \* zebra: the messages the running plan has still to yield
    zebra,            \* zebra: signal |-> the value the device holds
    z_pending,        \* zebra: the sets issued and not yet completed
    z_log,            \* zebra: the sets issued since the plan started, in order
    z_started,        \* zebra: the number of plans started so far
    beamline,         \* log: the environment variable BEAMLINE, "" when unset
    handlers,         \* log: the handlers of the logger 'I24ssx', in order
    log_dirs,         \* log: the directories that exist
    log_call,         \* log: the last call of log.config
    block_pvs,        \* stock maps: block |-> the value of its enable point
    currentchip_map,  \* stock maps: the lines of currentchip.map
    block_dict,       \* lite maps: the (button name, label) pairs last built
    gp9,              \* control point me14e_gp9: the abort flag
    bc_pc,            \* block_check: where the call stands
    bc_list,          \* block_check: its block_start_list
    bc_next,          \* block_check: the index of the entry visited next
    bc_reads,         \* block_check: the flag values read in the iteration
    stage,            \* the readbacks of the stage motors, RBV in 1e-5 mm
    fid_read          \* the RBV the latest fiducial(1), fiducial(2) read

vars == <<gp1, gp103, gp109, motor_direction, fiducial_file, calls, raised,
          last_op, a_chip, a_pos, a_addr, a_xy, parameters_txt, disk,
          e_call, e_result, z_call, z_plan, zebra, z_pending, z_log,
          z_started, beamline, handlers, log_dirs, log_call, block_pvs,
          currentchip_map, block_dict, gp9, bc_pc, bc_list, bc_next, bc_reads,
          stage, fid_read>>

hw_vars == <<gp1, gp103, gp109, motor_direction, fiducial_file, calls, raised,
             last_op>>

addr_vars == <<a_chip, a_pos, a_addr, a_xy>>

su_vars == <<parameters_txt, disk>>

engine_vars == <<e_call, e_result>>

zebra_vars == <<z_call, z_plan, zebra, z_pending, z_log, z_started>>

log_vars == <<beamline, handlers, log_dirs, log_call>>

\* what the chip manager, the start-up and the zebra plans leave alone
map_vars == <<block_pvs, currentchip_map, block_dict>>

bc_vars == <<gp9, bc_pc, bc_list, bc_next, bc_reads>>

fid_vars == <<stage, fid_read>>

other_vars == <<log_vars, map_vars, bc_vars, fid_vars>>

\* what does not belong to the chip manager's moves and calibrations
not_hw_vars == <<addr_vars, su_vars, engine_vars, zebra_vars, other_vars>>

\* the start-up has not run: no parameter file, chips/ holds nothing
SuIdle ==
    /\ parameters_txt = <<>>
    /\ disk = [x \in {<<"", "">>} |-> << <<"<dir>">> >>]

\* no function of the addressing engine has been called
EngineIdle ==
    /\ e_call = [fn |-> "none"]
    /\ e_result = [raised |-> "none"]

\* no plan is running and nothing has been set on the zebra
ZebraIdle ==
    /\ z_call = [fn |-> "none"]
    /\ z_plan = <<>>
    /\ zebra = <<>>
    /\ z_pending = {}
    /\ z_log = <<>>
    /\ z_started = 0

\* the log module is not looked at
LogIdle ==
    /\ beamline = ""
    /\ handlers = <<>>
    /\ log_dirs = {}
    /\ log_call = [fn |-> "none"]

\* the lite map screen is not looked at
MapIdle == block_pvs = <<>> /\ currentchip_map = <<>> /\ block_dict = <<>>

\* block_check is not called
BcIdle ==
    /\ gp9 = 0
    /\ bc_pc = "idle"
    /\ bc_list = <<>>
    /\ bc_next = 0
    /\ bc_reads = <<>>

\* the stage rests at the origin and no fiducial is being recorded
FidIdle ==
    /\ stage = [rbv |-> <<0, 0, 0>>, rrbv |-> <<0, 0, 0>>]
    /\ fid_read = <<>>

OtherIdle == LogIdle /\ MapIdle /\ BcIdle /\ FidIdle

----------------------------------------------------------------------------
(* Bounds of the model *)

\* chip type codes the control point gp1 may hold: 0 .. MaxChipCode
MaxChipCode == 11

\* plans the run engine is handed one after the other
MaxPlans == 2

\* handlers the logger 'I24ssx' is let to hold
MaxHandlers == 4

----------------------------------------------------------------------------
(* The hardware I/O adapter: caget, caput, sleep as recorded calls *)

caget(p) == [call |-> "caget", pv |-> p, str |-> <<>>, num |-> 0]

\* caput of a number
caput(p, n) == [call |-> "caput", pv |-> p, str |-> <<>>, num |-> n]

\* caput of a string, given as the sequence of its pieces
caput_str(p, s) == [call |-> "caput", pv |-> p, str |-> s, num |-> 0]

sleep(ms) == [call |-> "sleep", pv |-> "", str |-> <<>>, num |-> ms]

\* the calls of sequence s that satisfy Test, in order
RECURSIVE SelectCalls(_, _)
SelectCalls(s, kind) ==
    IF s = <<>> THEN <<>>
    ELSE IF Head(s).call = kind
         THEN <<Head(s)>> \o SelectCalls(Tail(s), kind)
         ELSE SelectCalls(Tail(s), kind)

\* the writes (caput) of the last operation
Writes == SelectCalls(calls, "caput")

\* the reads (caget) of the last operation
Reads == SelectCalls(calls, "caget")

RECURSIVE PmacOf(_)
PmacOf(s) ==
    IF s = <<>> THEN <<>>
    ELSE IF Head(s).call = "caput" /\ Head(s).pv = "me14e_pmac_str"
         THEN <<Head(s).str>> \o PmacOf(Tail(s))
         ELSE PmacOf(Tail(s))

\* the raw motion-controller commands of the last operation, in order
PmacCommands == PmacOf(calls)

\* the lists handed to pathli hold at most MaxListLen entries
MaxListLen == 2

----------------------------------------------------------------------------
(* Motion facade: moveto *)

\* the chip type codes moveto has a branch for (if / elif chain)
moveto_chip_types == {0, 1, 2, 3, 5, 6, 7, 8, 9, 10}

\* <<x target of "f1", y target of "f2">> of each branch of moveto, 1e-4 mm
moveto_offsets(chip_type) ==
    CASE chip_type = 0  -> <<189750, 213750>>
      [] chip_type = 1  -> <<254000, 254000>>
      [] chip_type = 2  -> <<249680, 249680>>
      [] chip_type = 3  -> <<246000, 246000>>
      [] chip_type = 5  -> <<171750, 171750>>
      [] chip_type = 6  -> <<254000, 254000>>
      [] chip_type = 7  -> <<191350, 96350>>
      [] chip_type = 8  -> <<195250, 93350>>
      [] chip_type = 9  -> <<23750, 23750>>
      [] chip_type = 10 -> <<182500, 182500>>

\* the chip specific part of moveto: the branch of chip_type, then the
\* three tests on place; the final else only logs a warning
moveto_chip_specific(place, chip_type) ==
    IF chip_type \in moveto_chip_types
    THEN CASE place = "origin" ->
                <<caput("me14e_stage_x", 0), caput("me14e_stage_y", 0)>>
           [] place = "f1" ->
                <<caput("me14e_stage_x", moveto_offsets(chip_type)[1]),
                  caput("me14e_stage_y", 0)>>
           [] place = "f2" ->
                <<caput("me14e_stage_x", 0),
                  caput("me14e_stage_y", moveto_offsets(chip_type)[2])>>
           [] OTHER -> <<>>
    ELSE <<>>

\* sleep(int(float(led_burn_time))): whole seconds, truncated
burn_sleep(led_burn_time) == sleep((led_burn_time \div 1000) * 1000)

\* the non chip specific part of moveto: one if / elif chain on place, with
\* no final else
moveto_non_chip_specific(place, t103, t109) ==
    CASE place = "zero" ->
            <<caput_str("me14e_pmac_str", <<"!x0y0z0">>)>>
      [] place = "yag" ->
            <<caput("me14e_stage_x", 10000), caput("me14e_stage_y", 10000),
              caput("me14e_stage_z", 10000)>>
      [] place = "load_position" ->
            <<caput_str("bs_mp_select", <<"Robot">>),
              caput_str("bl_mp_select", <<"Out">>),
              caput("det_z", 13000000)>>
      [] place = "collect_position" ->
            <<caput("me14e_filter", 200000),
              caput("me14e_stage_x", 0), caput("me14e_stage_y", 0),
              caput("me14e_stage_z", 0),
              caput_str("bs_mp_select", <<"Data Collection">>),
              caput_str("bl_mp_select", <<"In">>)>>
      [] place = "microdrop_position" ->
            <<caput("me14e_stage_x", 60000), caput("me14e_stage_y", -78000),
              caput("me14e_stage_z", 0)>>
      [] place = "lightin" -> <<caput("me14e_filter", 240000)>>
      [] place = "lightout" -> <<caput("me14e_filter", -240000)>>
      [] place = "flipperin" ->
            <<caput_str("me14e_pmac_str", <<"M512=0 M511=1">>)>>
      [] place = "flipperout" ->
            <<caput_str("me14e_pmac_str", <<" M512=1 M511=1">>)>>
      [] place = "laser1on" ->
            <<caput_str("me14e_pmac_str", <<" M712=1 M711=1">>)>>
      [] place = "laser1off" ->
            <<caput_str("me14e_pmac_str", <<" M712=0 M711=1">>)>>
      [] place = "laser2on" ->
            <<caput_str("me14e_pmac_str", <<" M812=1 M811=1">>)>>
      [] place = "laser2off" ->
            <<caput_str("me14e_pmac_str", <<" M812=0 M811=1">>)>>
      [] place = "laser1burn" ->
            <<caget("me14e_gp103"),
              caput_str("me14e_pmac_str", <<" M712=1 M711=1">>),
              burn_sleep(t103),
              caput_str("me14e_pmac_str", <<" M712=0 M711=1">>)>>
      [] place = "laser2burn" ->
            <<caget("me14e_gp109"),
              caput_str("me14e_pmac_str", <<" M812=1 M811=1">>),
              burn_sleep(t109),
              caput_str("me14e_pmac_str", <<" M812=0 M811=1">>)>>
      [] OTHER -> <<>>

\* moveto with an early return in the unknown chip type branch
moveto_returns_on_unknown_chip(place, chip_type, t103, t109) ==
    IF chip_type \in moveto_chip_types
    THEN <<caget("me14e_gp1")>>
           \o moveto_chip_specific(place, chip_type)
           \o moveto_non_chip_specific(place, t103, t109)
    ELSE <<caget("me14e_gp1")>>

\* moveto whose "origin" branches write the x target only
moveto_origin_x_only(place, chip_type, t103, t109) ==
    <<caget("me14e_gp1")>>
      \o (IF place = "origin" /\ chip_type \in moveto_chip_types
          THEN <<caput("me14e_stage_x", 0)>>
          ELSE moveto_chip_specific(place, chip_type))
      \o moveto_non_chip_specific(place, t103, t109)

\* moveto whose burns close the shutter before they sleep
moveto_burn_closes_before_dwell(place, chip_type, t103, t109) ==
    <<caget("me14e_gp1")>>
      \o moveto_chip_specific(place, chip_type)
      \o (CASE place = "laser1burn" ->
                 <<caget("me14e_gp103"),
                   caput_str("me14e_pmac_str", <<" M712=1 M711=1">>),
                   caput_str("me14e_pmac_str", <<" M712=0 M711=1">>),
                   burn_sleep(t103)>>
            [] place = "laser2burn" ->
                 <<caget("me14e_gp109"),
                   caput_str("me14e_pmac_str", <<" M812=1 M811=1">>),
                   caput_str("me14e_pmac_str", <<" M812=0 M811=1">>),
                   burn_sleep(t109)>>
            [] OTHER -> moveto_non_chip_specific(place, t103, t109))

\* moveto whose "f2" branches move by the x spacing of the chip
moveto_f2_by_x_spacing(place, chip_type, t103, t109) ==
    <<caget("me14e_gp1")>>
      \o (IF place = "f2" /\ chip_type \in moveto_chip_types
          THEN <<caput("me14e_stage_x", 0),
                 caput("me14e_stage_y", moveto_offsets(chip_type)[1])>>
          ELSE moveto_chip_specific(place, chip_type))
      \o moveto_non_chip_specific(place, t103, t109)

\* the calls of moveto(place) when gp1 holds chip_type and the burn time
\* control points hold t103 and t109
moveto(place, chip_type, t103, t109) ==
    <<caget("me14e_gp1")>>
      \o moveto_chip_specific(place, chip_type)
      \o moveto_non_chip_specific(place, t103, t109)

\* positions that depend on the chip type
ChipRelativePlaces == {"origin", "f1", "f2"}

\* positions of the second if / elif chain
ChipIndependentPlaces ==
    {"zero", "yag", "load_position", "collect_position", "microdrop_position",
     "lightin", "lightout", "flipperin", "flipperout", "laser1on", "laser1off",
     "laser2on", "laser2off", "laser1burn", "laser2burn"}

\* what the command line may pass as place; the last is no position at all
Places == ChipRelativePlaces \cup ChipIndependentPlaces \cup {"park"}

\* burn times the control points may hold, ms (0.1 s, 2.5 s)
BurnTimes == {100, 2500}

ChipCodes == 0 .. MaxChipCode

Moveto(place) ==
    /\ calls' = moveto(place, gp1, gp103, gp109)
    /\ raised' = "none"
    /\ last_op' = <<"moveto", place>>
    /\ UNCHANGED <<gp1, gp103, gp109, motor_direction, fiducial_file>>
    /\ UNCHANGED not_hw_vars

\* the exposure times the control point me14e_exptime may hold (0.01 s, 0.1 s)
ExposureTimes == {100, 1000}

\* the move time of pumpprobe_calc, 0.008 s
movetime == 80

\* round(n * 20 * (movetime + (pumpexptime + exptime) / 2), 4): the bracket
\* is computed in halves of 1e-4 s, the product is a whole number of 1e-4 s
pumpprobe_repeat(n, exptime, pumpexptime) ==
    (n * 20 * (2 * movetime + (pumpexptime + exptime))) \div 2

pumpprobe_calc(exptime, t103) ==
    << caget("me14e_exptime"), caget("me14e_gp3"), caget("me14e_gp103"),
       caput("me14e_gp104", pumpprobe_repeat(2, exptime, t103)),
       caput("me14e_gp105", pumpprobe_repeat(4, exptime, t103)),
       caput("me14e_gp106", pumpprobe_repeat(6, exptime, t103)),
       caput("me14e_gp107", pumpprobe_repeat(10, exptime, t103)),
       caput("me14e_gp108", pumpprobe_repeat(20, exptime, t103)) >>

PumpprobeCalc(exptime) ==
    /\ calls' = pumpprobe_calc(exptime, gp103)
    /\ raised' = "none"
    /\ last_op' = <<"pumpprobe_calc", ToString(exptime)>>
    /\ UNCHANGED <<gp1, gp103, gp109, motor_direction, fiducial_file>>
    /\ UNCHANGED not_hw_vars

----------------------------------------------------------------------------
(* Fixed-point floats *)

\* a float: NaN, or sign and magnitude (so that -0.0 differs from +0.0)
NaN == [nan |-> TRUE, neg |-> FALSE, mag |-> 0]

\* the float of the integer v (fixed point)
F(v) == [nan |-> FALSE, neg |-> v < 0, mag |-> IF v < 0 THEN -v ELSE v]

\* the value of a float that is not NaN
Val(a) == IF a.neg THEN -a.mag ELSE a.mag

\* a / b rounded to nearest, for a >= 0 and b > 0
RDiv(a, b) == (2 * a + b) \div (2 * b)

fneg(a) == IF a.nan THEN NaN ELSE [a EXCEPT !.neg = ~a.neg]

\* a * b / scale
fmul(a, b, scale) ==
    IF a.nan \/ b.nan THEN NaN
    ELSE [nan |-> FALSE, neg |-> a.neg # b.neg,
          mag |-> (a.mag \div scale) * b.mag
                    + RDiv((a.mag % scale) * b.mag, scale)]

\* a / b * scale; the divisors of cs_maker are never zero
fdiv(a, b, scale) ==
    IF a.nan \/ b.nan THEN NaN
    ELSE [nan |-> FALSE, neg |-> a.neg # b.neg,
          mag |-> RDiv(a.mag * scale, b.mag)]

fadd(a, b) ==
    IF a.nan \/ b.nan THEN NaN
    ELSE IF a.neg = b.neg THEN [a EXCEPT !.mag = a.mag + b.mag]
    ELSE IF a.mag > b.mag THEN [a EXCEPT !.mag = a.mag - b.mag]
    ELSE IF b.mag > a.mag THEN [b EXCEPT !.mag = b.mag - a.mag]
    ELSE F(0)

fsub(a, b) == fadd(a, fneg(b))

\* a * b / 1e9 rounded to nearest, by limbs of three digits, for
\* magnitudes whose product exceeds the integer range
MulNano(a, b) ==
    LET a2 == a \div 1000000
        a1 == (a \div 1000) % 1000
        a0 == a % 1000
        b2 == b \div 1000000
        b1 == (b \div 1000) % 1000
        b0 == b % 1000
        t0 == a0 * b0
        t1 == a0 * b1 + a1 * b0 + (t0 \div 1000)
        t2 == a0 * b2 + a1 * b1 + a2 * b0 + (t1 \div 1000)
        q  == a1 * b2 + a2 * b1 + (a2 * b2) * 1000 + (t2 \div 1000)
    IN  IF t2 % 1000 >= 500 THEN q + 1 ELSE q

\* a * b where b is in units of 1e-9
fmul_nano(a, b) ==
    IF a.nan \/ b.nan THEN NaN
    ELSE [nan |-> FALSE, neg |-> a.neg # b.neg, mag |-> MulNano(a.mag, b.mag)]

RECURSIVE isqrt(_, _, _)
\* the largest r in lo .. hi with r * r <= n
isqrt(n, lo, hi) ==
    IF lo >= hi THEN lo
    ELSE LET mid == (lo + hi + 1) \div 2
         IN  IF mid * mid <= n THEN isqrt(n, mid, hi) ELSE isqrt(n, lo, mid - 1)

\* np.sqrt(1 - S**2) for S in units of 1e-3: NaN (and a RuntimeWarning, no
\* exception) when 1 - S**2 is negative
np_sqrt_1_minus_sq(S) ==
    IF S.nan THEN NaN
    ELSE LET n == 1000000 - S.mag * S.mag
         IN  IF n < 0 THEN NaN
             ELSE LET r == isqrt(n, 0, 1000)
                  IN  F(IF n - r * r > r THEN r + 1 ELSE r)

\* three decimal digits
Digits3(n) ==
    (IF n < 10 THEN "00" ELSE IF n < 100 THEN "0" ELSE "") \o ToString(n)

\* "%+1.3f" % a, for a in units of 1e-3
fmt_plus_1_3f(a) ==
    IF a.nan THEN "+nan"
    ELSE (IF a.neg THEN "-" ELSE "+") \o ToString(a.mag \div 1000) \o "."
           \o Digits3(a.mag % 1000)

----------------------------------------------------------------------------
(* Calibration engine: the parameter files *)

\* a line of motor_direction.txt: how it starts, and the integer after "="
DirLine(start, value) == [start |-> start, value |-> value]

RECURSIVE scrape_mtr_directions(_)
\* <<mtr1_dir, mtr2_dir, mtr3_dir>>: each 1 unless a line sets it; a later
\* line wins; float(int(text)) is taken as it is, whatever the integer
scrape_mtr_directions(file) ==
    IF file = <<>> THEN <<1, 1, 1>>
    ELSE LET d == scrape_mtr_directions(SubSeq(file, 1, Len(file) - 1))
             l == file[Len(file)]
         IN  IF l.start = "mtr1" THEN <<l.value, d[2], d[3]>>
             ELSE IF l.start = "mtr2" THEN <<d[1], l.value, d[3]>>
             ELSE IF l.start = "mtr3" THEN <<d[1], d[2], l.value>>
             ELSE d

\* a fiducial file as fiducial() writes it: the header line, then one line
\* per motor with the columns MTR, RBV, RAW, Corr, f_value (1e-4 mm)
FiducialFileOf(pt) ==
    <<  <<"MTR", "RBV", "RAW", "Corr", "f_value">>,
        <<"MTR1", pt[1], pt[1], 1, pt[1]>>,
        <<"MTR2", pt[2], pt[2], 1, pt[2]>>,
        <<"MTR3", pt[3], pt[3], 1, pt[3]>>  >>

\* <<f_x, f_y, f_z>>: the fifth column of the three lines after the header
scrape_mtr_fiducials(file) ==
    LET f_lines == SubSeq(file, 2, Len(file))
    IN  <<f_lines[1][5], f_lines[2][5], f_lines[3][5]>>

----------------------------------------------------------------------------
(* Calibration engine: cs_maker *)

\* fiducial_dict: nominal fiducial spacing <<d_x, d_y>> per chip type, 1e-4 mm
fiducial_dict_keys == 0 .. 10

fiducial_dict(chip_type) ==
    CASE chip_type = 0  -> <<189750, 213750>>
      [] chip_type = 1  -> <<254000, 254000>>
      [] chip_type = 2  -> <<249680, 249680>>
      [] chip_type = 3  -> <<246000, 246000>>
      [] chip_type = 4  -> <<275000, 275000>>
      [] chip_type = 5  -> <<171750, 171750>>
      [] chip_type = 6  -> <<254000, 254000>>
      [] chip_type = 7  -> <<191350, 96350>>
      [] chip_type = 8  -> <<195250, 93350>>
      [] chip_type = 9  -> <<23750, 23750>>
      [] chip_type = 10 -> <<182500, 182500>>

\* scalex, scaley, scalez in units of 0.1
scalex == 100180
scaley == 99995
scalez == 100000

\* np.sin and np.cos of (skew / 2) degrees for skew = -0.189, units of 1e-9
sinD == F(-1649335)
cosD == F(999998640)

\* the sines and cosines of roll (z), yaw (y) and pitch (x), units of 1e-3
cs_angles(chip_type, f1, f2) ==
    LET d   == fiducial_dict(chip_type)
        Sz1 == fdiv(fneg(F(f1[2])), F(d[1]), 1000)
        Sz2 == fdiv(F(f2[1]), F(d[2]), 1000)
        Sz  == fneg(fdiv(fadd(Sz1, Sz2), F(2), 1))
        Sy  == fdiv(F(f1[3]), F(d[1]), 1000)
        Sx  == fdiv(fneg(F(f2[3])), F(d[2]), 1000)
    IN  [Sz |-> Sz, Cz |-> np_sqrt_1_minus_sq(Sz),
         Sy |-> Sy, Cy |-> np_sqrt_1_minus_sq(Sy),
         Sx |-> Sx, Cx |-> np_sqrt_1_minus_sq(Sx)]

\* mtr_dir * scale * t, for t in units of 1e-3: a factor in units of 1e-3
cs_factor(mtr_dir, scale, t) == fmul(fmul(F(mtr_dir), F(scale), 1), t, 10)

\* the product of two, and of three, sines or cosines
P2(a, b) == fmul(a, b, 1000)
P3(a, b, c) == fmul(fmul(a, b, 1000), c, 1000)

\* the nine factors of the rotation matrix, scaled and signed
cs_factors(mtr_dir, A) ==
    LET m1 == F(-1000)
    IN  [x1 |-> cs_factor(mtr_dir[1], scalex, P2(A.Cy, A.Cz)),
         y1 |-> cs_factor(mtr_dir[2], scaley, P3(m1, A.Cx, A.Sz)),
         z1 |-> cs_factor(mtr_dir[3], scalez, A.Sy),
         x2 |-> cs_factor(mtr_dir[1], scalex,
                          fadd(P3(A.Sx, A.Sy, A.Cz), P2(A.Cx, A.Sz))),
         y2 |-> cs_factor(mtr_dir[2], scaley,
                          fsub(P2(A.Cx, A.Cz), P3(A.Sx, A.Sy, A.Sz))),
         z2 |-> cs_factor(mtr_dir[3], scalez, P3(m1, A.Sx, A.Cy)),
         x3 |-> cs_factor(mtr_dir[1], scalex,
                          fsub(P2(A.Sx, A.Sz), P3(A.Cx, A.Sy, A.Cz))),
         y3 |-> cs_factor(mtr_dir[2], scaley,
                          fadd(P3(A.Cx, A.Sy, A.Sz), P2(A.Sx, A.Cz))),
         z3 |-> cs_factor(mtr_dir[3], scalez, P2(A.Cx, A.Cy))]

\* cs_maker without the skew correction
cs_skewed_without_skew(f) ==
    [new_x1 |-> f.x1, new_y1 |-> f.y1, new_x2 |-> f.x2, new_y2 |-> f.y2]

\* the half-angle skew correction of the x and y factors of rows 1 and 2
cs_skewed(f) ==
    [new_x1 |-> fadd(fmul_nano(f.x1, cosD), fmul_nano(f.y1, sinD)),
     new_y1 |-> fadd(fmul_nano(f.x1, sinD), fmul_nano(f.y1, cosD)),
     new_x2 |-> fadd(fmul_nano(f.x2, cosD), fmul_nano(f.y2, sinD)),
     new_y2 |-> fadd(fmul_nano(f.x2, sinD), fmul_nano(f.y2, cosD))]

\* "#<n>->%+1.3fX%+1.3fY%+1.3fZ" % (x, y, z), as the pieces of the string
cs_string(n, x, y, z) ==
    << "#" \o ToString(n) \o "->", fmt_plus_1_3f(x), "X", fmt_plus_1_3f(y), "Y",
       fmt_plus_1_3f(z), "Z" >>

\* cs1, cs2, cs3
cs_strings(f) ==
    LET k == cs_skewed(f)
    IN  << cs_string(1, k.new_x1, k.new_y1, f.z1),
           cs_string(2, k.new_x2, k.new_y2, f.z2),
           cs_string(3, f.x3, f.y3, f.z3) >>

zero_move == <<"!x0y0z0">>
home_all == <<"#1hmz#2hmz#3hmz">>
offset_move == <<"!x0.4y0.4">>
cs_select == <<"&2">>

\* cs_maker sending the three assignments before the group is selected
cs_maker_send_rows_before_select(chip_type, cs) ==
    << caput_str("me14e_pmac_str", zero_move), sleep(2500),
       caput_str("me14e_pmac_str", cs[1]),
       caput_str("me14e_pmac_str", cs[2]),
       caput_str("me14e_pmac_str", cs[3]),
       caput_str("me14e_pmac_str", cs_select),
       caput_str("me14e_pmac_str", zero_move), sleep(100),
       caput_str("me14e_pmac_str", home_all), sleep(100) >>
      \o (IF chip_type = 1
          THEN << caput_str("me14e_pmac_str", offset_move), sleep(100),
                  caput_str("me14e_pmac_str", home_all) >>
          ELSE << caput_str("me14e_pmac_str", home_all) >>)

\* the hardware calls of cs_maker once the three strings are made
cs_maker_send(chip_type, cs) ==
    << caput_str("me14e_pmac_str", zero_move), sleep(2500),
       caput_str("me14e_pmac_str", cs_select),
       caput_str("me14e_pmac_str", cs[1]),
       caput_str("me14e_pmac_str", cs[2]),
       caput_str("me14e_pmac_str", cs[3]),
       caput_str("me14e_pmac_str", zero_move), sleep(100),
       caput_str("me14e_pmac_str", home_all), sleep(100) >>
      \o (IF chip_type = 1
          THEN << caput_str("me14e_pmac_str", offset_move), sleep(100),
                  caput_str("me14e_pmac_str", home_all) >>
          ELSE << caput_str("me14e_pmac_str", home_all) >>)

\* cs_maker looking the chip type up only after the first zero move
cs_maker_late_lookup(chip_type, dir_file, fid_files) ==
    IF chip_type \notin fiducial_dict_keys
    THEN [calls |-> << caget("me14e_gp1"),
                       caput_str("me14e_pmac_str", zero_move), sleep(2500) >>,
          raised |-> "KeyError"]
    ELSE LET mtr_dir == scrape_mtr_directions(dir_file)
             f1 == scrape_mtr_fiducials(fid_files[1])
             f2 == scrape_mtr_fiducials(fid_files[2])
             A  == cs_angles(chip_type, f1, f2)
             cs == cs_strings(cs_factors(mtr_dir, A))
         IN  [calls |-> <<caget("me14e_gp1")>> \o cs_maker_send(chip_type, cs),
              raised |-> "none"]

\* cs_maker: the calls it makes and the exception that ends it, if any
cs_maker(chip_type, dir_file, fid_files) ==
    IF chip_type \notin fiducial_dict_keys
    THEN [calls |-> <<caget("me14e_gp1")>>, raised |-> "KeyError"]
    ELSE LET mtr_dir == scrape_mtr_directions(dir_file)
             f1 == scrape_mtr_fiducials(fid_files[1])
             f2 == scrape_mtr_fiducials(fid_files[2])
             A  == cs_angles(chip_type, f1, f2)
             cs == cs_strings(cs_factors(mtr_dir, A))
         IN  [calls |-> <<caget("me14e_gp1")>> \o cs_maker_send(chip_type, cs),
              raised |-> "none"]

\* cs_reset without the group select
cs_reset_without_select ==
    << caput_str("me14e_pmac_str", <<"#1->-10000X+0Y+0Z">>), sleep(500),
       caput_str("me14e_pmac_str", <<"#2->+0X+10000Y+0Z">>), sleep(500),
       caput_str("me14e_pmac_str", <<"#3->0X+0Y+10000Z">>) >>

\* cs_reset: three fixed assignments after the group select
cs_reset ==
    << caput_str("me14e_pmac_str", cs_select), sleep(500),
       caput_str("me14e_pmac_str", <<"#1->-10000X+0Y+0Z">>), sleep(500),
       caput_str("me14e_pmac_str", <<"#2->+0X+10000Y+0Z">>), sleep(500),
       caput_str("me14e_pmac_str", <<"#3->0X+0Y+10000Z">>) >>

CsMaker ==
    LET r == cs_maker(gp1, motor_direction, fiducial_file)
    IN  /\ calls' = r.calls
        /\ raised' = r.raised
        /\ last_op' = <<"cs_maker", "">>
        /\ UNCHANGED <<gp1, gp103, gp109, motor_direction, fiducial_file>>
        /\ UNCHANGED not_hw_vars

CsReset ==
    /\ calls' = cs_reset
    /\ raised' = "none"
    /\ last_op' = <<"cs_reset", "">>
    /\ UNCHANGED <<gp1, gp103, gp109, motor_direction, fiducial_file>>
    /\ UNCHANGED not_hw_vars

----------------------------------------------------------------------------
(* Calibration engine: recording a fiducial *)

\* "%1.4f" % v for v in units of 1e-5 mm: the number the text stands for,
\* in units of 1e-4 mm, the nearest one (the even one of two as near)
fmt_1_4f(v) ==
    LET m == IF v < 0 THEN -v ELSE v
        q == m \div 10
        r == m % 10
        n == IF r > 5 \/ (r = 5 /\ q % 2 = 1) THEN q + 1 ELSE q
    IN  IF v < 0 THEN -n ELSE n

\* the file fiducial() writes, with the f_value of MTR2 on the line of MTR3
fiducial_with_f_y_on_mtr3(rbv, raw, mtr_dir) ==
    <<  <<"MTR", "RBV", "RAW", "Corr", "f_value">>,
        <<"MTR1", fmt_1_4f(rbv[1]), raw[1], mtr_dir[1], fmt_1_4f(rbv[1])>>,
        <<"MTR2", fmt_1_4f(rbv[2]), raw[2], mtr_dir[2], fmt_1_4f(rbv[2])>>,
        <<"MTR3", fmt_1_4f(rbv[3]), raw[3], mtr_dir[3], fmt_1_4f(rbv[2])>>  >>

\* the file fiducial() writes from the readbacks it has read: f_x, f_y, f_z
\* are the RBV of the three motors, written with four decimals
fiducial(rbv, raw, mtr_dir) ==
    LET f_x == rbv[1]
        f_y == rbv[2]
        f_z == rbv[3]
    IN  <<  <<"MTR", "RBV", "RAW", "Corr", "f_value">>,
            <<"MTR1", fmt_1_4f(rbv[1]), raw[1], mtr_dir[1], fmt_1_4f(f_x)>>,
            <<"MTR2", fmt_1_4f(rbv[2]), raw[2], mtr_dir[2], fmt_1_4f(f_y)>>,
            <<"MTR3", fmt_1_4f(rbv[3]), raw[3], mtr_dir[3], fmt_1_4f(f_z)>>  >>

\* the reads of fiducial()
fiducial_reads ==
    << caget("me14e_stage_x.RBV"), caget("me14e_stage_y.RBV"),
       caget("me14e_stage_z.RBV"), caget("me14e_stage_x.RRBV"),
       caget("me14e_stage_y.RRBV"), caget("me14e_stage_z.RRBV") >>

\* the points a fiducial is recorded for
FiducialPoints == {1, 2}

Fiducial(point) ==
    /\ calls' = fiducial_reads
    /\ raised' = "none"
    /\ last_op' = <<"fiducial", ToString(point)>>
    /\ fiducial_file' =
          [fiducial_file EXCEPT ![point] =
              fiducial(stage.rbv, stage.rrbv,
                       scrape_mtr_directions(motor_direction))]
    /\ fid_read' = [fid_read EXCEPT ![point] = stage.rbv]
    /\ UNCHANGED stage
    /\ UNCHANGED <<gp1, gp103, gp109, motor_direction>>
    /\ UNCHANGED <<addr_vars, su_vars, engine_vars, zebra_vars, log_vars,
                   map_vars, bc_vars>>

\* readbacks of the stage, RBV in 1e-5 mm and RRBV in counts: the origin,
\* a point within a count of it, and points near the two Oxford fiducials
StageReadbacks ==
    { [rbv |-> <<0, 0, 0>>, rrbv |-> <<0, 0, 0>>],
      [rbv |-> <<12, -7, 4>>, rrbv |-> <<1, 0, 0>>],
      [rbv |-> <<2540003, 1234, -506>>, rrbv |-> <<254000, 123, -50>>],
      [rbv |-> <<-1007, 2540018, 249>>, rrbv |-> <<-100, -254001, 24>>] }

\* the stage is moved
MoveStage(s) ==
    /\ s # stage
    /\ stage' = s
    /\ UNCHANGED fid_read
    /\ UNCHANGED hw_vars
    /\ UNCHANGED <<addr_vars, su_vars, engine_vars, zebra_vars, log_vars,
                   map_vars, bc_vars>>

----------------------------------------------------------------------------
(* Addressing engine.  A Python string is the sequence of its characters. *)

ascii_uppercase ==
    << "A", "B", "C", "D", "E", "F", "G", "H", "I", "J", "K", "L", "M",
       "N", "O", "P", "Q", "R", "S", "T", "U", "V", "W", "X", "Y", "Z" >>

ascii_lowercase ==
    << "a", "b", "c", "d", "e", "f", "g", "h", "i", "j", "k", "l", "m",
       "n", "o", "p", "q", "r", "s", "t", "u", "v", "w", "x", "y", "z" >>

\* the attributes of Python 3's string module that the engine names;
\* string.uppercase is an attribute of Python 2's module only
string_module ==
    [ascii_uppercase |-> ascii_uppercase, ascii_lowercase |-> ascii_lowercase]

\* list(s)[:n] as a list of one-character strings
Chars(s, n) == [i \in 1 .. (IF n < Len(s) THEN n ELSE Len(s)) |-> <<s[i]>>]

\* s.index(c) for a character that occurs in s, 0-based
IndexOf(s, c) == (CHOOSE i \in 1 .. Len(s) : s[i] = c) - 1

\* [str(x) for x in range(1, n + 1)], for n <= 9
number_strings(n) == [i \in 1 .. n |-> <<ToString(i)>>]

\* the chip types get_format has a branch for
SupportedChipTypes == {"1", "3", "9"}

\* get_format answering an unknown chip type with the Oxford format
get_format_falls_back_to_oxford(chip_type) ==
    CASE chip_type = "3" ->
            [raised |-> "none", fmt |-> <<1, 1, 25, 25, 6000, 0, 0>>]
      [] chip_type = "9" ->
            [raised |-> "none", fmt |-> <<1, 1, 20, 20, 1250, 0, 0>>]
      [] OTHER ->
            [raised |-> "none", fmt |-> <<8, 8, 20, 20, 1250, 8000, 8000>>]

\* get_format giving the one-block chips no block at all
get_format_counts_blocks_from_zero(chip_type) ==
    CASE chip_type = "1" ->
            [raised |-> "none", fmt |-> <<8, 8, 20, 20, 1250, 8000, 8000>>]
      [] chip_type = "3" ->
            [raised |-> "none", fmt |-> <<0, 0, 25, 25, 6000, 0, 0>>]
      [] chip_type = "9" ->
            [raised |-> "none", fmt |-> <<0, 0, 20, 20, 1250, 0, 0>>]
      [] OTHER ->
            [raised |-> "UnboundLocalError", fmt |-> <<>>]

\* get_format: [x_block_num, y_block_num, x_window_num, y_window_num, w2w,
\* b2b_horz, b2b_vert]; w2w and b2b in units of 1e-4 mm.  For any other
\* chip type the names are unbound at line 151.
get_format(chip_type) ==
    CASE chip_type = "1" ->
            [raised |-> "none", fmt |-> <<8, 8, 20, 20, 1250, 8000, 8000>>]
      [] chip_type = "3" ->
            [raised |-> "none", fmt |-> <<1, 1, 25, 25, 6000, 0, 0>>]
      [] chip_type = "9" ->
            [raised |-> "none", fmt |-> <<1, 1, 20, 20, 1250, 0, 0>>]
      [] OTHER ->
            [raised |-> "UnboundLocalError", fmt |-> <<>>]

Reversed(l) == [i \in 1 .. Len(l) |-> l[Len(l) + 1 - i]]

\* rep times: li on even repetitions, reversed(li) on odd ones
SnakeReps(li, reps) ==
    LET n  == Len(li)
        lr == Reversed(li)
    IN  [i \in 1 .. reps * n |->
            IF ((i - 1) \div n) % 2 = 0 THEN li[((i - 1) % n) + 1]
                                        ELSE lr[((i - 1) % n) + 1]]

\* every entry of li repeated reps times
ExpandReps(li, reps) == [i \in 1 .. Len(li) * reps |-> li[((i - 1) \div reps) + 1]]

\* pathli whose "expand" repeats every entry one time too few
pathli_expand_one_short(l_in, way, reverse) ==
    LET li == IF reverse THEN Reversed(l_in) ELSE l_in
        n  == Len(li)
    IN  IF n = 0 THEN <<>>
        ELSE CASE way = "typewriter" -> [i \in 1 .. n * n |-> li[((i - 1) % n) + 1]]
               [] way = "snake"      -> SnakeReps(li, n)
               [] way = "snake53"    -> SnakeReps(li, 53)
               [] way = "expand"     -> ExpandReps(li, n - 1)
               [] way = "expand28"   -> ExpandReps(li, 28)
               [] way = "expand25"   -> ExpandReps(li, 25)
               [] OTHER              -> <<>>

\* pathli(l_in, way, reverse): an unknown way, or an empty list, gives the
\* empty list and a logged warning
pathli(l_in, way, reverse) ==
    LET li == IF reverse THEN Reversed(l_in) ELSE l_in
        n  == Len(li)
    IN  IF n = 0 THEN <<>>
        ELSE CASE way = "typewriter" -> [i \in 1 .. n * n |-> li[((i - 1) % n) + 1]]
               [] way = "snake"      -> SnakeReps(li, n)
               [] way = "snake53"    -> SnakeReps(li, 53)
               [] way = "expand"     -> ExpandReps(li, n)
               [] way = "expand28"   -> ExpandReps(li, 28)
               [] way = "expand25"   -> ExpandReps(li, 25)
               [] OTHER              -> <<>>

\* zippum: the two paths zipped (to the shorter), each pair concatenated
zippum(list_1_args, list_2_args) ==
    LET A_path == pathli(list_1_args[1], list_1_args[2], list_1_args[3])
        B_path == pathli(list_2_args[1], list_2_args[2], list_2_args[3])
        n == IF Len(A_path) < Len(B_path) THEN Len(A_path) ELSE Len(B_path)
    IN  [i \in 1 .. n |-> A_path[i] \o B_path[i]]

\* list(string.ascii_lowercase + string.ascii_uppercase + "0")
window_letters == ascii_lowercase \o ascii_uppercase \o <<"0">>

\* block + "_" + window for every window of every block, in order
get_alphanumeric(chip_type) ==
    LET cell_format == get_format(chip_type).fmt
        blk_num == cell_format[1]
        wnd_num == cell_format[3]
        uppercase_list == Chars(ascii_uppercase, blk_num)
        lowercase_list == Chars(window_letters, wnd_num)
        number_list == number_strings(blk_num)
        block_list == zippum(<<uppercase_list, "expand", FALSE>>,
                             <<number_list, "typewriter", FALSE>>)
        window_list == zippum(<<lowercase_list, "expand", FALSE>>,
                              <<lowercase_list, "typewriter", FALSE>>)
        W == Len(window_list)
    IN  [k \in 1 .. Len(block_list) * W |->
            block_list[((k - 1) \div W) + 1] \o <<"_">>
              \o window_list[((k - 1) % W) + 1]]

RECURSIVE shot_loop(_, _, _, _, _)
\* the loop of get_shot_order from block b on: sc is <<switch, count>>,
\* windows is <<window_dn, window_up>>; the list it collects
shot_loop(block_list, b, sc, blk_num, windows) ==
    IF b > Len(block_list) THEN <<>>
    ELSE LET wl == windows[sc[1] + 1]
             count == sc[2] + 1
             nxt == IF count = blk_num THEN <<1 - sc[1], 0>> ELSE <<sc[1], count>>
         IN  [w \in 1 .. Len(wl) |-> block_list[b] \o <<"_">> \o wl[w]]
               \o shot_loop(block_list, b + 1, nxt, blk_num, windows)

\* block_list of get_shot_order: the blocks in the order of their visit
shot_block_list(chip_type) ==
    LET blk_num == get_format(chip_type).fmt[1]
        uppercase_list == Chars(ascii_uppercase, blk_num)
        number_list == number_strings(blk_num)
    IN  zippum(<<uppercase_list, "snake", FALSE>>,
               <<number_list, "expand", FALSE>>)

get_shot_order(chip_type) ==
    LET cell_format == get_format(chip_type).fmt
        blk_num == cell_format[1]
        wnd_num == cell_format[3]
        lowercase_list == Chars(window_letters, wnd_num)
        block_list == shot_block_list(chip_type)
        window_dn == zippum(<<lowercase_list, "expand", FALSE>>,
                            <<lowercase_list, "snake", FALSE>>)
        window_up == zippum(<<lowercase_list, "expand", TRUE>>,
                            <<lowercase_list, "snake", FALSE>>)
    IN  shot_loop(block_list, 1, <<0, 0>>, blk_num, <<window_dn, window_up>>)

\* addr.split("_")[-2:], for an address with at least one "_"
RECURSIVE SplitFrom(_, _, _)
SplitFrom(addr, i, cur) ==
    IF i > Len(addr) THEN <<cur>>
    ELSE IF addr[i] = "_" THEN <<cur>> \o SplitFrom(addr, i + 1, <<>>)
    ELSE SplitFrom(addr, i + 1, Append(cur, addr[i]))

LastTwo(l) == SubSeq(l, Len(l) - 1, Len(l))

\* get_xy(addr, chip_type): the row of the block is looked up in
\* string.uppercase, which Python 3's string module does not have
get_xy(addr, chip_type) ==
    LET entry == LastTwo(SplitFrom(addr, 1, <<>>))
        R  == entry[1][1]
        C  == entry[1][2]
        r2 == entry[2][1]
        c2 == entry[2][2]
    IN  IF "uppercase" \notin DOMAIN string_module
        THEN [raised |-> "AttributeError", x |-> 0, y |-> 0]
        ELSE LET blockR == IndexOf(string_module.uppercase, R)
                 blockC == IndexOf(<<"1", "2", "3", "4", "5", "6", "7", "8", "9">>, C)
                 windowR == IndexOf(window_letters, r2)
                 windowC == IndexOf(window_letters, c2)
                 f == get_format(chip_type).fmt
             IN  [raised |-> "none",
                  x |-> (blockC * f[6]) + (blockC * (f[3] - 1) * f[5])
                          + (windowC * f[5]),
                  y |-> (blockR * f[7]) + (blockR * (f[4] - 1) * f[5])
                          + (windowR * f[5])]

\* the two orders of every supported chip type
alphanumeric_of == [c \in SupportedChipTypes |-> get_alphanumeric(c)]

shot_order_of == [c \in SupportedChipTypes |-> get_shot_order(c)]

\* chip type identifiers a parameter file may hand to the engine
ChipTypeIds == {"0", "1", "2", "3", "9", "10"}

\* the entries of the lists handed to pathli
ListEntries == {<<"a">>, <<"b">>, <<"c">>}

\* the lists handed to pathli
Lists == UNION {[1 .. n -> ListEntries] : n \in 0 .. MaxListLen}

\* the traversal-order tokens handed to pathli; the last is none pathli knows
Ways ==
    {"typewriter", "snake", "snake53", "expand", "expand28", "expand25",
     "zigzag"}

\* get_format(chip_type) is called
CallGetFormat(chip_type) ==
    /\ e_call' = [fn |-> "get_format", chip_type |-> chip_type]
    /\ e_result' = get_format(chip_type)
    /\ UNCHANGED <<hw_vars, addr_vars, su_vars, zebra_vars, other_vars>>

\* pathli(l_in, way, reverse) is called; it has no raise statement and
\* indexes li only inside its bounds
CallPathli(l_in, way, reverse) ==
    /\ e_call' = [fn |-> "pathli", l_in |-> l_in, way |-> way,
                  reverse |-> reverse]
    /\ e_result' = [raised |-> "none", value |-> pathli(l_in, way, reverse)]
    /\ UNCHANGED <<hw_vars, addr_vars, su_vars, zebra_vars, other_vars>>

----------------------------------------------------------------------------
(* Start-up: parameters.txt and the per-chip header files.  A text file is *)
(* the sequence of its lines, a line the sequence of its fields.           *)

\* "visit" of write_parameter_file
visit_dir == "/dls/i24/data/2023/mx31850-14/"

\* the values write_parameter_file reads from control points other than
\* gp1, gp103 and gp109
PvValues ==
    [filepath : {"protA"}, chip_name : {"chipA", "chip1"}, exptime : {"0.01"},
     dcdetdist : {"1480"}, gp4 : {"0"}, gp110 : {"0"}, gp3 : {"1", "2"},
     gp2 : {"0"}, gp101 : {"eiger", "pilatus"}]

\* filename.endswith(numbers), for the chip names of PvValues
EndsInNumber(filename) == filename = "chip1"

\* the lines write_parameter_file writes, and the calls it makes
write_parameter_file(chip_code, t103, t109, v) ==
    LET filename == IF v.gp101 = "pilatus" /\ EndsInNumber(v.chip_name)
                    THEN v.chip_name \o "-" ELSE v.chip_name
        chip_type == IF ToString(chip_code) = "3" THEN "1" ELSE ToString(chip_code)
    IN  [calls |->
            << caput_str("me14e_gp100", <<visit_dir>>),
               caget("me14e_filepath"), caget("me14e_chip_name"),
               caget("me14e_exptime"), caget("me14e_dcdetdist"),
               caget("me14e_filepath"), caget("me14e_gp4"),
               caget("me14e_gp103"), caget("me14e_gp110"),
               caget("me14e_gp109"), caget("me14e_gp3"), caget("me14e_gp2"),
               caget("me14e_gp1"), caget("me14e_gp101") >>
            \o (IF v.gp101 = "pilatus"
                THEN <<caput("pilat_cbftemplate", 0)>> ELSE <<>>),
         file |->
            << <<"visit", visit_dir>>,
               <<"chip_name", filename>>,
               <<"protein_name", v.filepath>>,
               <<"n_exposures", v.gp3>>,
               <<"chip_type", chip_type>>,
               <<"map_type", v.gp2>>,
               <<"pump_repeat", v.gp4>>,
               <<"pumpexptime", ToString(t103)>>,
               <<"pumpdelay", v.gp110>>,
               <<"prepumpexptime", ToString(t109)>>,
               <<"exptime", v.exptime>>,
               <<"dcdetdist", v.dcdetdist>>,
               <<"det_type", v.gp101>> >>]

\* the value of the last line of f whose first field is one of keys
RECURSIVE LastValue(_, _, _)
LastValue(f, keys, found) ==
    IF f = <<>> THEN found
    ELSE LastValue(Tail(f), keys,
                   IF Head(f)[1] \in keys THEN Head(f)[2] ELSE found)

\* scrape_parameter_file: each name with the first fields its test accepts
\* among those write_parameter_file writes ("exptime" in entry[0] accepts
\* three of them, the last line wins)
scrape_parameter_file(f) ==
    [chip_name      |-> LastValue(f, {"chip_name"}, "unbound"),
     visit          |-> LastValue(f, {"visit"}, "unbound"),
     sub_dir        |-> LastValue(f, {"sub_dir", "protein_name"}, "unbound"),
     n_exposures    |-> LastValue(f, {"n_exposures"}, "unbound"),
     chip_type      |-> LastValue(f, {"chip_type"}, "unbound"),
     map_type       |-> LastValue(f, {"map_type"}, "unbound"),
     pump_repeat    |-> LastValue(f, {"pump_repeat"}, "unbound"),
     pumpexptime    |-> LastValue(f, {"pumpexptime"}, "unbound"),
     pumpdelay      |-> LastValue(f, {"pumpdelay"}, "unbound"),
     exptime        |-> LastValue(f, {"pumpexptime", "prepumpexptime", "exptime"},
                                  "unbound"),
     dcdetdist      |-> LastValue(f, {"dcdetdist"}, "unbound"),
     prepumpexptime |-> LastValue(f, {"prepumpexptime"}, "unbound"),
     det_type       |-> LastValue(f, {"det_type"}, "unbound")]

\* the names scrape_parameter_file returns
ScrapedNames ==
    {"chip_name", "visit", "sub_dir", "n_exposures", "chip_type", "map_type",
     "pump_repeat", "pumpexptime", "pumpdelay", "exptime", "dcdetdist",
     "prepumpexptime", "det_type"}

\* scrape_parameter_file returns: every line has a second field and every
\* name is bound at the return statement
scrape_accepts(f) ==
    /\ \A i \in DOMAIN f : Len(f[i]) >= 2
    /\ \A k \in ScrapedNames : scrape_parameter_file(f)[k] # "unbound"

\* read_parameters: line.split(maxsplit=1) gives the key and the rest of the
\* line (the fields after the first), which is stored under key.lower();
\* the keys of the files drawn here are in lower case already
RECURSIVE read_parameters_loop(_, _)
read_parameters_loop(lines, args) ==
    IF lines = <<>> THEN [raised |-> "none", value |-> args]
    ELSE IF Len(Head(lines)) < 2
    THEN [raised |-> "ValueError", value |-> args]
    ELSE LET key == Head(lines)[1]
             value == Tail(Head(lines))
         IN  read_parameters_loop(Tail(lines),
                 [k \in DOMAIN args \cup {key} |->
                     IF k = key THEN value ELSE args[k]])

read_parameters(f) == read_parameters_loop(f, <<>>)

\* the parameter files handed to the two readers: what write_parameter_file
\* writes, in the order written or in the reverse order, with or without a
\* sub_dir line at the end, the chip name in one word or in two
ParameterFiles ==
    { LET written == write_parameter_file(1, 100, 50, v).file
          named == [i \in DOMAIN written |->
                      IF written[i][1] = "chip_name" /\ two_words
                      THEN written[i] \o <<"B">> ELSE written[i]]
          ordered == IF reversed THEN Reversed(named) ELSE named
      IN  IF sub_dir THEN ordered \o << <<"sub_dir", "subA">> >> ELSE ordered :
        v \in PvValues, two_words \in BOOLEAN, reversed \in BOOLEAN,
        sub_dir \in BOOLEAN }

\* scrape_parameter_file() is called on parameters.txt
CallScrapeParameterFile ==
    /\ e_call' = [fn |-> "scrape_parameter_file"]
    /\ e_result' =
          IF scrape_accepts(parameters_txt)
          THEN [raised |-> "none",
                value |-> scrape_parameter_file(parameters_txt)]
          ELSE [raised |-> "UnboundLocalError"]
    /\ UNCHANGED <<hw_vars, addr_vars, su_vars, zebra_vars, other_vars>>

\* read_parameters() is called on parameters.txt
CallReadParameters ==
    /\ e_call' = [fn |-> "read_parameters"]
    /\ e_result' = read_parameters(parameters_txt)
    /\ UNCHANGED <<hw_vars, addr_vars, su_vars, zebra_vars, other_vars>>

\* a suffix handed to Path.with_suffix: whether it starts with a dot
Suffix(dot, text) == [dot |-> dot, text |-> text]

\* chip_file_path.with_suffix(suffix) for a chip name without a dot;
\* pathlib raises ValueError for a suffix that does not start with a dot
with_suffix(path, suffix) ==
    IF suffix.dot
    THEN [raised |-> "none", path |-> <<path[1], path[2] \o suffix.text>>]
    ELSE [raised |-> "ValueError", path |-> path]

\* what the disk holds for a directory
Directory == << <<"<dir>">> >>

\* d with path holding content
Stored(d, path, content) ==
    [x \in (DOMAIN d) \cup {path} |-> IF x = path THEN content ELSE d[x]]

\* the loop of check_files: the timestamped name is computed and logged,
\* nothing is renamed
RECURSIVE check_files_loop(_, _, _)
check_files_loop(d, chip_file_path, suffix_list) ==
    IF suffix_list = <<>> THEN [disk |-> d, raised |-> "none"]
    ELSE LET full_fid == with_suffix(chip_file_path, Head(suffix_list))
         IN  IF full_fid.raised # "none"
             THEN [disk |-> d, raised |-> full_fid.raised]
             ELSE check_files_loop(d, chip_file_path, Tail(suffix_list))

\* check_files("i24", suffix_list)
check_files(d, f, suffix_list) ==
    LET p == scrape_parameter_file(f)
        chip_file_path == <<p.sub_dir, p.chip_name>>
        d1 == IF chip_file_path \in DOMAIN d THEN d
              ELSE Stored(d, chip_file_path, Directory)
    IN  check_files_loop(d1, chip_file_path, suffix_list)

\* the lines write_headers writes
header_lines(p) ==
    << <<"#2345678901234567890">>, <<"#">>,
       <<"#&i24", "chip_name", p.chip_name>>,
       <<"#&i24", "visit", p.visit>>,
       <<"#&i24", "sub_dir", p.sub_dir>>,
       <<"#&i24", "n_exposures", p.n_exposures>>,
       <<"#&i24", "chip_type", p.chip_type>>,
       <<"#&i24", "map_type", p.map_type>>,
       <<"#&i24", "pump_repeat", p.pump_repeat>>,
       <<"#&i24", "pumpexptime", p.pumpexptime>>,
       <<"#&i24", "exptime", p.exptime>>,
       <<"#&i24", "dcdetdist", p.dcdetdist>>,
       <<"#&i24", "prepumpexptime", p.prepumpexptime>>,
       <<"#&i24", "det_Type", p.det_type>>,
       <<"#">>,
       <<"#XtalAddr", "XCoord", "YCoord", "ZCoord", "Present", "Shot",
         "Spare04", "Spare03", "Spare02", "Spare01">> >>


\* the loop of write_headers: open(full_fid, "w") truncates what is there
RECURSIVE write_headers_loop(_, _, _, _)
write_headers_loop(d, chip_file_path, p, suffix_list) ==
    IF suffix_list = <<>> THEN [disk |-> d, raised |-> "none"]
    ELSE LET full_fid == with_suffix(chip_file_path, Head(suffix_list))
         IN  IF full_fid.raised # "none"
             THEN [disk |-> d, raised |-> full_fid.raised]
             ELSE write_headers_loop(Stored(d, full_fid.path, header_lines(p)),
                                     chip_file_path, p, Tail(suffix_list))

\* write_headers("i24", suffix_list)
write_headers(d, f, suffix_list) ==
    LET p == scrape_parameter_file(f)
    IN  write_headers_loop(d, <<p.sub_dir, p.chip_name>>, p, suffix_list)

\* the two suffix lists of run
addr_and_shot == << Suffix(TRUE, ".addr"), Suffix(TRUE, ".shot") >>

rando_spec == << Suffix(FALSE, "rando.spec") >>

\* run(): check_files and write_headers for [".addr", ".shot"], then for
\* ["rando.spec"]; the first exception ends it
run(d, f) ==
    LET r1 == check_files(d, f, addr_and_shot)
        r2 == write_headers(r1.disk, f, addr_and_shot)
        r3 == check_files(r2.disk, f, rando_spec)
        r4 == write_headers(r3.disk, f, rando_spec)
    IN  IF r1.raised # "none" THEN r1
        ELSE IF r2.raised # "none" THEN r2
        ELSE IF r3.raised # "none" THEN r3
        ELSE r4

\* the start-up module run on its own
StartupRun ==
    LET r == run(disk, parameters_txt)
    IN  /\ disk' = r.disk
        /\ raised' = r.raised
        /\ calls' = <<>>
        /\ last_op' = <<"run", "">>
        /\ UNCHANGED <<gp1, gp103, gp109, motor_direction, fiducial_file>>
        /\ UNCHANGED parameters_txt
        /\ UNCHANGED <<addr_vars, engine_vars, zebra_vars, other_vars>>

\* the command "write_parameter_file" of the chip manager:
\* write_parameter_file() and then startup.run()
WriteParameterFile(v) ==
    LET w == write_parameter_file(gp1, gp103, gp109, v)
        r == run(disk, w.file)
    IN  /\ parameters_txt' = w.file
        /\ disk' = r.disk
        /\ raised' = r.raised
        /\ calls' = w.calls
        /\ last_op' = <<"write_parameter_file", "">>
        /\ UNCHANGED <<gp1, gp103, gp109, motor_direction, fiducial_file>>
        /\ UNCHANGED <<addr_vars, engine_vars, zebra_vars, other_vars>>

\* the directory chips/ itself
ChipsRoot == <<"", "">>

\* a per-chip file of an earlier collection: its header and two sites
OldChipFile ==
    header_lines(scrape_parameter_file(
        write_parameter_file(1, 100, 100,
            [filepath |-> "protA", chip_name |-> "chipA", exptime |-> "0.02",
             dcdetdist |-> "1480", gp4 |-> "0", gp110 |-> "0", gp3 |-> "1",
             gp2 |-> "0", gp101 |-> "eiger"]).file))
      \o << <<"chipA_A1_aa", "0.0", "0.0", "0.0", "-1">>,
            <<"chipA_A1_ab", "0.0", "0.125", "0.0", "-1">> >>

\* what chips/ may hold before the start-up runs: nothing, or chipA's files
\* of an earlier collection
InitialDisks ==
    { Stored(<<>>, ChipsRoot, Directory),
      Stored(Stored(Stored(<<>>, ChipsRoot, Directory),
                    <<"protA", "chipA">>, Directory),
             <<"protA", "chipA.addr">>, OldChipFile),
      Stored(Stored(Stored(Stored(<<>>, ChipsRoot, Directory),
                           <<"protA", "chipA">>, Directory),
                    <<"protA", "chipA.addr">>, OldChipFile),
             <<"protA", "chipA.shot">>, OldChipFile) }

----------------------------------------------------------------------------
(* Zebra set-up plans.  A plan is the sequence of messages it yields to   *)
(* the run engine: set (a signal, a value, a group), wait (for the sets   *)
(* of a group) and sleep.  Times are in units of 1e-4 s.                  *)

\* a value that is a named choice, and a value that is a number
ZVal(s) == [str |-> s, num |-> 0]
ZNum(n) == [str |-> "", num |-> n]

\* bps.abs_set(signal, value, group=group)
bps_abs_set(sig, v, group) ==
    << [op |-> "set", sig |-> sig, val |-> v, group |-> group, within |-> {}] >>

\* bps.wait(group)
bps_wait(group) ==
    << [op |-> "wait", sig |-> "", val |-> ZVal(""), group |-> group,
        within |-> {}] >>

\* bps.sleep(t)
bps_sleep(t) ==
    << [op |-> "sleep", sig |-> "", val |-> ZNum(t), group |-> "",
        within |-> {}] >>

\* bps.abs_set(signal, value, wait=True): the set, then the wait for it alone
bps_abs_set_wait(sig, v) ==
    bps_abs_set(sig, v, "abs_set " \o sig) \o bps_wait("abs_set " \o sig)

\* the messages of a plan, each marked as yielded within that plan
yield_from(name, msgs) ==
    [i \in DOMAIN msgs |-> [msgs[i] EXCEPT !.within = @ \cup {name}]]

GATE_START == 10000

arm_zebra == yield_from("arm_zebra", bps_abs_set_wait("pc.arm", ZVal("Arm")))

\* disarm_zebra without waiting for the disarm to complete
disarm_zebra_without_wait ==
    yield_from("disarm_zebra",
               bps_abs_set("pc.arm", ZVal("Disarm"), "abs_set pc.arm"))

disarm_zebra ==
    yield_from("disarm_zebra", bps_abs_set_wait("pc.arm", ZVal("Disarm")))

open_fast_shutter ==
    yield_from("open_fast_shutter",
               bps_abs_set_wait("inputs.soft_in_2", ZVal("Open")))

close_fast_shutter ==
    yield_from("close_fast_shutter",
               bps_abs_set_wait("inputs.soft_in_2", ZVal("Close")))

setup_pc_sources(gate_source, pulse_source) ==
    yield_from("setup_pc_sources",
        bps_abs_set("pc.gate_source", ZVal(gate_source), "pc_sources")
        \o bps_abs_set("pc.pulse_source", ZVal(pulse_source), "pc_sources")
        \o bps_wait("pc_sources"))

setup_zebra_for_quickshot_plan(exp_time, num_images, wait) ==
    LET group == "setup_zebra_for_quickshot"
        gate_width == exp_time * num_images + 5000
    IN  yield_from("setup_zebra_for_quickshot_plan",
            bps_abs_set("pc.arm_source", ZVal("Soft"), group)
            \o setup_pc_sources("Time", "External")
            \o bps_abs_set("pc.gate_start", ZNum(GATE_START), group)
            \o bps_abs_set("pc.gate_width", ZNum(gate_width), group)
            \o bps_abs_set("pc.gate_input", ZVal("SOFT_IN2"), group)
            \o bps_sleep(1000)
            \o (IF wait THEN bps_wait(group) ELSE <<>>))

\* SHUTTER_MODE[mode]
SHUTTER_MODE(mode) == IF mode = "manual" THEN "DISCONNECT" ELSE "IN1_TTL"

set_shutter_mode(mode) ==
    yield_from("set_shutter_mode",
               bps_abs_set_wait("inputs.soft_in_1", ZVal(SHUTTER_MODE(mode))))

\* gate width and gate step of an extruder collection with pump probe;
\* pump_probe_buffer is 0.01 s
get_zebra_settings_for_extruder(exp_time, pump_exp, pump_delay) ==
    LET pump_probe_buffer == 100
        gate_width == pump_exp + pump_delay + exp_time
        gate_step == gate_width + pump_probe_buffer
    IN  <<gate_width, gate_step>>

set_logic_gates_for_porto_triggering ==
    LET group == "porto_logic_gates"
    IN  yield_from("set_logic_gates_for_porto_triggering",
            bps_abs_set("logic_gates.and_gate_3.source_1", ZVal("SOFT_IN2"),
                        group)
            \o bps_abs_set("logic_gates.and_gate_3.source_2", ZVal("PULSE1"),
                           group)
            \o bps_abs_set("logic_gates.and_gate_4.source_1", ZVal("SOFT_IN2"),
                           group)
            \o bps_abs_set("logic_gates.and_gate_4.source_2", ZVal("PULSE2"),
                           group)
            \o bps_wait(group))

\* detector specific outs
TTL_EIGER == 1
TTL_PILATUS == 2

\* zebra.output.out_pvs[ttl]
out_pvs(ttl) == "output.out_" \o ToString(ttl)

\* the messages of setup_zebra_for_extruder_with_pump_probe_plan once the
\* detector and laser outputs are chosen and given their inputs
pump_probe_messages(det_out, det_in, laser_out, laser_in, exp_time, num_images, pump_exp, pump_delay, pulse1_delay, wait) ==
    LET group == "setup_zebra_for_extruder_pp"
        gate_width ==
            get_zebra_settings_for_extruder(exp_time, pump_exp, pump_delay)[1]
        gate_step ==
            get_zebra_settings_for_extruder(exp_time, pump_exp, pump_delay)[2]
    IN  yield_from("setup_zebra_for_extruder_with_pump_probe_plan",
            set_shutter_mode("manual")
            \o setup_pc_sources("Time", "External")
            \o set_logic_gates_for_porto_triggering
            \o bps_abs_set(det_out, ZVal(det_in), group)
            \o bps_abs_set(laser_out, ZVal(laser_in), group)
            \o bps_abs_set("pc.gate_input", ZVal("SOFT_IN2"), group)
            \o bps_abs_set("pc.gate_start", ZNum(GATE_START), group)
            \o bps_abs_set("pc.gate_width", ZNum(gate_width), group)
            \o bps_abs_set("pc.gate_step", ZNum(gate_step), group)
            \o bps_abs_set("pc.num_gates", ZNum(num_images), group)
            \o bps_abs_set("output.pulse_1.input", ZVal("PC_GATE"), group)
            \o bps_abs_set("output.pulse_1.delay", ZNum(pulse1_delay), group)
            \o bps_abs_set("output.pulse_1.width", ZNum(pump_exp), group)
            \o bps_abs_set("output.pulse_2.input", ZVal("PC_GATE"), group)
            \o bps_abs_set("output.pulse_2.delay", ZNum(pump_delay), group)
            \o bps_abs_set("output.pulse_2.width", ZNum(exp_time), group)
            \o (IF wait THEN bps_wait(group) ELSE <<>>))

\* the pump probe set-up with the detector output on AND3 and the laser
\* output on AND4
pump_probe_detector_on_and3(det_type, exp_time, num_images, pump_exp, pump_delay, pulse1_delay, wait) ==
    LET DET_TTL == IF det_type = "eiger" THEN TTL_EIGER ELSE TTL_PILATUS
        LASER_TTL == IF det_type = "eiger" THEN TTL_PILATUS ELSE TTL_EIGER
    IN  pump_probe_messages(out_pvs(DET_TTL), "AND3", out_pvs(LASER_TTL),
                            "AND4", exp_time, num_images, pump_exp,
                            pump_delay, pulse1_delay, wait)

setup_zebra_for_extruder_with_pump_probe_plan(det_type, exp_time, num_images, pump_exp, pump_delay, pulse1_delay, wait) ==
    LET DET_TTL == IF det_type = "eiger" THEN TTL_EIGER ELSE TTL_PILATUS
        LASER_TTL == IF det_type = "eiger" THEN TTL_PILATUS ELSE TTL_EIGER
    IN  pump_probe_messages(out_pvs(DET_TTL), "AND4", out_pvs(LASER_TTL),
                            "AND3", exp_time, num_images, pump_exp,
                            pump_delay, pulse1_delay, wait)

reset_pc_gate_and_pulse ==
    LET group == "reset_pc"
    IN  yield_from("reset_pc_gate_and_pulse",
            bps_abs_set("pc.gate_start", ZNum(0), group)
            \o bps_abs_set("pc.pulse_width", ZNum(0), group)
            \o bps_abs_set("pc.pulse_step", ZNum(0), group)
            \o bps_wait(group))

reset_output_panel ==
    LET group == "reset_zebra_outputs"
    IN  yield_from("reset_output_panel",
            bps_abs_set("output.out_2", ZVal("PC_GATE"), group)
            \o bps_abs_set("output.out_3", ZVal("DISCONNECT"), group)
            \o bps_abs_set("output.out_4", ZVal("OR1"), group)
            \o bps_abs_set("output.pulse_1.input", ZVal("DISCONNECT"), group)
            \o bps_abs_set("output.pulse_2.input", ZVal("DISCONNECT"), group)
            \o bps_wait(group))

zebra_return_to_normal_plan(wait) ==
    LET group == "zebra-return-to-normal"
    IN  yield_from("zebra_return_to_normal_plan",
            bps_abs_set("pc.reset", ZNum(1), group)
            \o setup_pc_sources("Position", "Position")
            \o bps_abs_set("pc.gate_input", ZVal("SOFT_IN3"), group)
            \o bps_abs_set("pc.num_gates", ZNum(1), group)
            \o bps_abs_set("pc.pulse_input", ZVal("DISCONNECT"), group)
            \o bps_abs_set("logic_gates.and_gate_3.source_1", ZVal("PC_ARM"),
                           group)
            \o bps_abs_set("logic_gates.and_gate_3.source_2", ZVal("IN1_TTL"),
                           group)
            \o reset_output_panel
            \o bps_abs_set("pc.gate_trigger", ZVal("omega"), group)
            \o bps_abs_set("pc.dir", ZVal("Positive"), group)
            \o reset_pc_gate_and_pulse
            \o (IF wait THEN bps_wait(group) ELSE <<>>))

\* the end of collection with the disarm not waited for
reset_zebra_without_waiting_for_disarm ==
    yield_from("reset_zebra_when_collection_done_plan",
        close_fast_shutter
        \o disarm_zebra_without_wait
        \o zebra_return_to_normal_plan(TRUE))

reset_zebra_when_collection_done_plan ==
    yield_from("reset_zebra_when_collection_done_plan",
        close_fast_shutter
        \o disarm_zebra
        \o zebra_return_to_normal_plan(TRUE))

\* the signals of the zebra the plans set
Signals ==
    {"pc.arm", "inputs.soft_in_2", "pc.arm_source", "pc.gate_source",
     "pc.pulse_source", "pc.gate_start", "pc.gate_width", "pc.gate_input",
     "pc.reset", "pc.num_gates", "pc.pulse_input",
     "logic_gates.and_gate_3.source_1", "logic_gates.and_gate_3.source_2",
     "output.out_2", "output.out_3", "output.out_4", "output.pulse_1.input",
     "output.pulse_2.input", "pc.gate_trigger", "pc.dir", "pc.pulse_width",
     "pc.pulse_step", "inputs.soft_in_1", "logic_gates.and_gate_4.source_1",
     "logic_gates.and_gate_4.source_2", "output.out_1", "pc.gate_step",
     "output.pulse_1.delay", "output.pulse_1.width", "output.pulse_2.delay",
     "output.pulse_2.width"}

\* exposure times (0.01 s, 0.1 s) and numbers of images handed to a plan
ExpTimes == {100, 1000}
NumImages == {10}

\* a call of a plan without arguments, and a call with arguments
PlanCall(fn) == [fn |-> fn, exp_time |-> 0, num_images |-> 0, wait |-> TRUE]

\* the plans the run engine may be handed
PlanCalls ==
    {PlanCall(fn) : fn \in {"arm_zebra", "disarm_zebra", "open_fast_shutter",
                            "close_fast_shutter",
                            "reset_zebra_when_collection_done_plan"}}
    \cup {[fn |-> "zebra_return_to_normal_plan", exp_time |-> 0,
           num_images |-> 0, wait |-> w] : w \in BOOLEAN}
    \cup {[fn |-> "setup_zebra_for_quickshot_plan", exp_time |-> e,
           num_images |-> n, wait |-> w] :
            e \in ExpTimes, n \in NumImages, w \in BOOLEAN}

\* detectors, laser dwells (0.005 s) and laser delays (0.01 s) handed to the
\* pump probe set-up
DetTypes == {"eiger", "pilatus"}
PumpExps == {50}
PumpDelays == {100}

\* the plans of an extruder collection with pump probe
PumpProbeCalls ==
    {PlanCall(fn) : fn \in {"arm_zebra",
                            "reset_zebra_when_collection_done_plan"}}
    \cup {[fn |-> "setup_zebra_for_extruder_with_pump_probe_plan",
           det_type |-> d, exp_time |-> 100, num_images |-> 10,
           pump_exp |-> pe, pump_delay |-> pd, pulse1_delay |-> 0,
           wait |-> TRUE] :
            d \in DetTypes, pe \in PumpExps, pd \in PumpDelays}

\* the messages the called plan yields
Messages(c) ==
    CASE c.fn = "arm_zebra" -> arm_zebra
      [] c.fn = "disarm_zebra" -> disarm_zebra
      [] c.fn = "open_fast_shutter" -> open_fast_shutter
      [] c.fn = "close_fast_shutter" -> close_fast_shutter
      [] c.fn = "reset_zebra_when_collection_done_plan" ->
            reset_zebra_when_collection_done_plan
      [] c.fn = "zebra_return_to_normal_plan" ->
            zebra_return_to_normal_plan(c.wait)
      [] c.fn = "setup_zebra_for_quickshot_plan" ->
            setup_zebra_for_quickshot_plan(c.exp_time, c.num_images, c.wait)
      [] c.fn = "setup_zebra_for_extruder_with_pump_probe_plan" ->
            setup_zebra_for_extruder_with_pump_probe_plan(
                c.det_type, c.exp_time, c.num_images, c.pump_exp, c.pump_delay,
                c.pulse1_delay, c.wait)

\* RE(plan): the run engine takes a plan when the last one has ended and
\* the sets it started are done
RunPlan(c) ==
    /\ z_plan = <<>>
    /\ z_pending = {}
    /\ z_started < MaxPlans
    /\ z_call' = c
    /\ z_plan' = Messages(c)
    /\ z_log' = <<>>
    /\ z_started' = z_started + 1
    /\ UNCHANGED <<zebra, z_pending>>

\* the run engine processes a set message: the set is started, not awaited
ZebraSet ==
    /\ z_plan # <<>>
    /\ Head(z_plan).op = "set"
    /\ z_log' = Append(z_log, Head(z_plan))
    /\ z_pending' = z_pending
          \cup {[id |-> <<z_started, Len(z_log) + 1>>, msg |-> Head(z_plan)]}
    /\ z_plan' = Tail(z_plan)
    /\ UNCHANGED <<z_call, zebra, z_started>>

\* a started set completes: the device holds the value.  Sets of one signal
\* complete in the order they were started.
ZebraSetDone(p) ==
    /\ p \in z_pending
    /\ \A q \in z_pending :
          q.msg.sig = p.msg.sig =>
              \/ q.id[1] > p.id[1]
              \/ q.id[1] = p.id[1] /\ q.id[2] >= p.id[2]
    /\ zebra' = [zebra EXCEPT ![p.msg.sig] = p.msg.val]
    /\ z_pending' = z_pending \ {p}
    /\ UNCHANGED <<z_call, z_plan, z_log, z_started>>

\* the run engine processes a wait message once no set of the group is pending
ZebraWait ==
    /\ z_plan # <<>>
    /\ Head(z_plan).op = "wait"
    /\ \A q \in z_pending : q.msg.group # Head(z_plan).group
    /\ z_plan' = Tail(z_plan)
    /\ UNCHANGED <<z_call, zebra, z_pending, z_log, z_started>>

\* the run engine processes a sleep message
ZebraSleep ==
    /\ z_plan # <<>>
    /\ Head(z_plan).op = "sleep"
    /\ z_plan' = Tail(z_plan)
    /\ UNCHANGED <<z_call, zebra, z_pending, z_log, z_started>>

----------------------------------------------------------------------------
(* The log module.  A handler is a record of its class, level and stream *)
(* or file.                                                               *)

NullHandler ==
    [class |-> "NullHandler", level |-> "NOTSET", file |-> "", mode |-> "",
     delay |-> FALSE]

\* the handler "console" of logging_config
console ==
    [class |-> "StreamHandler", level |-> "DEBUG", file |-> "ext://sys.stdout",
     mode |-> "", delay |-> FALSE]

\* logging.config.dictConfig that keeps the handlers the logger holds
dictConfig_keeps_handlers(existing) == existing \o <<console>>

\* logging.config.dictConfig(logging_config), not incremental: the handlers
\* the logger 'I24ssx' holds are removed, those of the configuration added
dictConfig(existing) == <<console>>

\* the handlers of 'I24ssx' once the module is loaded: addHandler of a
\* NullHandler, then dictConfig
module_loaded == dictConfig(Append(<<>>, NullHandler))

\* _get_logging_file_path: the directory, and the directories after mkdir
get_logging_file_path(env, dirs) ==
    LET logging_path == IF env # "" THEN "/dls_sw/" \o env \o "/logs/serial"
                        ELSE "tmp/logs"
    IN  [path |-> logging_path, dirs |-> dirs \cup {logging_path}]

\* config(logfile, write_mode, delayed): the handlers and the directories
\* after the call; the logfile None is ""
config(h, env, dirs, logfile, write_mode, delayed) ==
    IF logfile # ""
    THEN LET p == get_logging_file_path(env, dirs)
             FH == [class |-> "FileHandler", level |-> "DEBUG",
                    file |-> p.path \o "/" \o logfile, mode |-> write_mode,
                    delay |-> delayed]
         IN  [handlers |-> Append(h, FH), dirs |-> p.dirs]
    ELSE [handlers |-> h, dirs |-> dirs]

\* the log files and write modes handed to config
LogFiles == {"", "dummy.log", "i24_2023_01_01.log"}
WriteModes == {"a", "w"}

Config(logfile, write_mode, delayed) ==
    /\ Len(handlers) < MaxHandlers
    /\ LET c == config(handlers, beamline, log_dirs, logfile, write_mode,
                       delayed)
       IN  /\ handlers' = c.handlers
           /\ log_dirs' = c.dirs
    /\ log_call' = [fn |-> "config", logfile |-> logfile,
                    write_mode |-> write_mode, delayed |-> delayed]
    /\ UNCHANGED beamline
    /\ UNCHANGED <<hw_vars, addr_vars, su_vars, engine_vars, zebra_vars,
                   map_vars, bc_vars, fid_vars>>

----------------------------------------------------------------------------
(* Stock maps: the block-enable control points of the lite map screen *)

\* the blocks of the screen, as save_screen_map reads them
ScreenBlocks == 1 .. 81

\* the control point of block x
block_pv(x) == "ME14E-MO-IOC-01:GP" \o ToString(x + 10)

r33 == <<19, 18, 17, 26, 31, 32, 33, 24, 25>>

r55 ==
    <<9, 10, 11, 12, 13, 16, 27, 30, 41, 40, 39, 38, 37, 34, 23, 20>> \o r33

r77 == <<7, 6, 5, 4, 3, 2, 1, 14, 15, 28, 29, 42, 43, 44, 45, 46, 47, 48, 49,
      36, 35, 22, 21, 8>> \o r55

h33 == <<3, 2, 1, 6, 7, 8, 9, 4, 5>>

x33 == <<31, 32, 33, 40, 51, 50, 49, 42, 41>>

x55 ==
    <<25, 24, 23, 22, 21, 34, 39, 52, 57, 58, 59, 60, 61, 48, 43, 30>> \o x33

x77 ==
    <<11, 12, 13, 14, 15, 16, 17, 20, 35, 38, 53, 56, 71, 70, 69, 68, 67,
      66, 65, 62, 47, 44, 29, 26>>
    \o x55

x99 ==
    <<9, 8, 7, 6, 5, 4, 3, 2, 1, 18, 19, 36, 37, 54, 55, 72, 73, 74, 75, 76,
      77, 78, 79, 80, 81, 64, 63, 46, 45, 28, 27, 10>>
    \o x77

x44 ==
    <<22, 21, 20, 19, 30, 35, 46, 45, 44, 43, 38, 27, 28, 29, 36, 37>>

x49 == [i \in 1 .. 49 |-> i]

x66 ==
    <<10, 11, 12, 13, 14, 15, 18, 31, 34, 47, 50, 51, 52, 53, 54, 55, 42,
      39, 26, 23>>
    \o x44

x88 ==
    <<8, 7, 6, 5, 4, 3, 2, 1, 16, 17, 32, 33, 48, 49, 64, 63, 62, 61, 60,
      59, 58, 57, 56, 41, 40, 25, 24, 9>>
    \o x66

c1 == [i \in 1 .. 8 |-> i + 0]

c2 == [i \in 1 .. 8 |-> i + 8]

c3 == [i \in 1 .. 8 |-> i + 16]

c4 == [i \in 1 .. 8 |-> i + 24]

c5 == [i \in 1 .. 8 |-> i + 32]

c6 == [i \in 1 .. 8 |-> i + 40]

c7 == [i \in 1 .. 8 |-> i + 48]

c8 == [i \in 1 .. 8 |-> i + 56]

half1 == c1 \o c2 \o c3 \o c4

half2 == c5 \o c6 \o c7 \o c8

map_dict_keys ==
    {"Just The First Block", "clear", "r33", "r55", "r77", "h33", "x33",
     "x44", "x49", "x55", "x66", "x77", "x88", "x99", "half1", "half2"}

map_dict(map_choice) ==
    CASE map_choice = "Just The First Block" -> <<1>>
      [] map_choice = "clear" -> <<>>
      [] map_choice = "r33" -> r33
      [] map_choice = "r55" -> r55
      [] map_choice = "r77" -> r77
      [] map_choice = "h33" -> h33
      [] map_choice = "x33" -> x33
      [] map_choice = "x44" -> x44
      [] map_choice = "x49" -> x49
      [] map_choice = "x55" -> x55
      [] map_choice = "x66" -> x66
      [] map_choice = "x77" -> x77
      [] map_choice = "x88" -> x88
      [] map_choice = "x99" -> x99
      [] map_choice = "half1" -> half1
      [] map_choice = "half2" -> half2

\* load_stock_map: 0 to the blocks 1 to 64, then 1 to the blocks of the
\* map; an unknown map name raises KeyError once the blocks are cleared
load_stock_map(map_choice) ==
    LET clearing == [i \in 1 .. 64 |-> caput(block_pv(i), 0)]
    IN  IF map_choice \in map_dict_keys
        THEN [raised |-> "none",
              calls |-> clearing
                  \o [k \in DOMAIN map_dict(map_choice) |->
                        caput(block_pv(map_dict(map_choice)[k]), 1)]]
        ELSE [raised |-> "KeyError", calls |-> clearing]

\* the block-enable control points after the writes of s, made in order
AfterBlockWrites(pvs, s) ==
    [x \in DOMAIN pvs |->
        LET pvar == block_pv(x)
            writes == {k \in DOMAIN s : s[k].pv = pvar}
        IN  IF writes = {} THEN pvs[x]
            ELSE s[CHOOSE k \in writes : \A j \in writes : j <= k].num]

\* "%02d" of a block number
fmt_02d(x) == IF x < 10 THEN "0" \o ToString(x) ELSE ToString(x)

\* save_screen_map: one line for each of the 81 blocks, with the value its
\* control point holds
save_screen_map(pvs) ==
    [x \in ScreenBlocks |->
        fmt_02d(x) \o "status    P3" \o fmt_02d(x) \o "1 \t"
            \o ToString(pvs[x])]

SaveScreenMap ==
    /\ calls' = [x \in ScreenBlocks |-> caget(block_pv(x))]
    /\ raised' = "none"
    /\ last_op' = <<"save_screen_map", "">>
    /\ currentchip_map' = save_screen_map(block_pvs)
    /\ UNCHANGED <<block_pvs, block_dict>>
    /\ UNCHANGED <<gp1, gp103, gp109, motor_direction, fiducial_file>>
    /\ UNCHANGED <<addr_vars, su_vars, engine_vars, zebra_vars, log_vars,
                   bc_vars, fid_vars>>

\* the map names handed to load_stock_map; the last is in no table
MapChoices == map_dict_keys \cup {"x100"}

LoadStockMap(map_choice) ==
    LET r == load_stock_map(map_choice)
    IN  /\ calls' = r.calls
        /\ raised' = r.raised
        /\ last_op' = <<"load_stock_map", map_choice>>
        /\ block_pvs' = AfterBlockWrites(block_pvs, r.calls)
        /\ UNCHANGED <<currentchip_map, block_dict>>
        /\ UNCHANGED <<gp1, gp103, gp109, motor_direction, fiducial_file>>
        /\ UNCHANGED <<addr_vars, su_vars, engine_vars, zebra_vars, log_vars,
                       bc_vars, fid_vars>>

\* one pass of the grid loop of load_lite_map for button i = x * 8 + y,
\* numbering every column downwards
grid_step_without_snake(i, y, flip) == [flip |-> flip, z |-> y]

\* one pass of the grid loop of load_lite_map for button i = x * 8 + y:
\* the flip it leaves and the place z of the button in its column
grid_step(i, y, flip) ==
    IF i % 8 = 0 /\ flip = FALSE THEN [flip |-> TRUE, z |-> 8 - (y + 1)]
    ELSE IF i % 8 = 0 /\ flip = TRUE THEN [flip |-> FALSE, z |-> y]
    ELSE IF flip = FALSE THEN [flip |-> FALSE, z |-> y]
    ELSE [flip |-> TRUE, z |-> 8 - (y + 1)]

\* the grid loop from button i on: the (button name, label) pairs it
\* stores, in the order it stores them
RECURSIVE grid_loop(_, _)
grid_loop(i, flip) ==
    IF i >= 9 * 8 THEN <<>>
    ELSE LET x == i \div 8
             y == i % 8
             column == x + 1
             row == ascii_uppercase[y + 1]
             step == grid_step(i, y, flip)
             button_name == <<row>> \o <<ToString(column)>>
             lab_num == x * 8 + step.z
             label == fmt_02d(lab_num + 1)
         IN  << <<button_name, label>> >> \o grid_loop(i + 1, step.flip)

\* btn_names of load_lite_map, the Oxford block order
btn_names == grid_loop(0, TRUE)

\* d[key] for a dictionary given as its (key, value) pairs: the pair
\* stored last
dict_get(d, key) ==
    d[CHOOSE k \in DOMAIN d :
          d[k][1] = key /\ \A j \in DOMAIN d : d[j][1] = key => j <= k][2]

dict_keys(d) == {d[k][1] : k \in DOMAIN d}

\* int(block_num) of a label of two digits
int_of_label(label) ==
    CHOOSE n \in 0 .. 99 : fmt_02d(n) = label

\* the chip types for which load_lite_map builds the Oxford block order
OxfordOrderChipTypes == {1, 3, 10}

\* load_lite_map for a chip type with the Oxford order and the lines of a
\* lite file, each split into block name and yes/no
load_lite_map(lite) ==
    LET clear == load_stock_map("clear").calls
        reads == <<caget("me14e_gp1"), caget("me14e_gp5")>>
        known == {k \in DOMAIN lite :
                     \A j \in 1 .. k : lite[j][1] \in dict_keys(btn_names)}
    IN  [raised |-> IF known = DOMAIN lite THEN "none" ELSE "KeyError",
         block_dict |-> btn_names,
         calls |-> clear \o reads
             \o [k \in known |->
                   caput(block_pv(int_of_label(dict_get(btn_names, lite[k][1]))),
                         lite[k][2])]]

\* the lite files on disk
LiteFiles ==
    { <<>>,
      << <<<<"A", "2">>, 1>>, <<<<"H", "2">>, 1>> >>,
      << <<<<"B", "3">>, 1>>, <<<<"J", "1">>, 1>> >> }

LoadLiteMap(lite) ==
    LET r == load_lite_map(lite)
    IN  /\ gp1 \in OxfordOrderChipTypes
        /\ calls' = r.calls
        /\ raised' = r.raised
        /\ last_op' = <<"load_lite_map", "">>
        /\ block_pvs' = AfterBlockWrites(block_pvs, r.calls)
        /\ block_dict' = r.block_dict
        /\ UNCHANGED currentchip_map
        /\ UNCHANGED <<gp1, gp103, gp109, motor_direction, fiducial_file>>
        /\ UNCHANGED <<addr_vars, su_vars, engine_vars, zebra_vars, log_vars,
                       bc_vars, fid_vars>>

----------------------------------------------------------------------------
(* block_check: a visit to the start of every block *)

\* A line of a .pvar file is the sequence of its characters.

\* line.startswith(prefix)
startswith(line, prefix) ==
    Len(prefix) <= Len(line) /\ SubSeq(line, 1, Len(prefix)) = prefix

\* line.rstrip()
RECURSIVE rstrip(_)
rstrip(line) ==
    IF line # <<>> /\ line[Len(line)] \in {" ", "\n", "\t"}
    THEN rstrip(SubSeq(line, 1, Len(line) - 1))
    ELSE line

\* line.split(sep) for a separator of one character
RECURSIVE split(_, _)
split(line, sep) ==
    IF \A k \in DOMAIN line : line[k] # sep THEN <<line>>
    ELSE LET k == CHOOSE i \in DOMAIN line :
                      line[i] = sep /\ \A j \in 1 .. i - 1 : line[j] # sep
         IN  <<SubSeq(line, 1, k - 1)>>
                 \o split(SubSeq(line, k + 1, Len(line)), sep)

\* the line "P3<block>1=<x> P3<block>2=<y>\n" of a .pvar file
pvar_line(block, x, y) ==
    <<"P", "3">> \o block \o <<"1", "=">> \o x \o <<" ", "P", "3">> \o block
        \o <<"2", "=">> \o y \o <<"\n">>

\* the .pvar files of the IOC, each with a comment, the two lines
\* scrape_pvar_file passes over, an empty line and its block starts
pvar_head ==
    << <<"#", "b", "l", "o", "c", "k", "s", "\n">>,
       <<"P", "3", "0", "0", "0", "=", "0", "\n">>,
       pvar_line(<<"0", "1">>, <<"0">>, <<"0">>),
       <<"\n">> >>

PvarFile(fid) ==
    CASE fid = "minichip_oxford.pvar" ->
            pvar_head \o << pvar_line(<<"0", "2">>, <<"0">>, <<"1">>) >>
      [] fid = "oxford6x6.pvar" ->
            pvar_head \o << pvar_line(<<"0", "2">>, <<"0">>, <<"2">>),
                            pvar_line(<<"0", "3">>, <<"0">>, <<"4">>) >>
      [] fid = "sacla3_oxford.pvar" ->
            pvar_head \o << pvar_line(<<"0", "2">>, <<"0">>, <<"3">>),
                            pvar_line(<<"0", "3">>, <<"0">>, <<"6">>),
                            pvar_line(<<"0", "4">>, <<"3">>, <<"6">>) >>

RECURSIVE scrape_pvar_lines(_)
scrape_pvar_lines(lines) ==
    IF lines = <<>> THEN <<>>
    ELSE LET line == rstrip(Head(lines))
             entry == split(line, " ")
         IN  IF \/ startswith(line, <<"#">>)
                \/ startswith(line, <<"P", "3", "0", "0", "0">>)
                \/ startswith(line, <<"P", "3", "0", "1", "1">>)
                \/ Len(entry) # 2
             THEN scrape_pvar_lines(Tail(lines))
             ELSE << <<SubSeq(entry[1], 3, 4), split(entry[1], "=")[2],
                       split(entry[2], "=")[2]>> >>
                      \o scrape_pvar_lines(Tail(lines))

scrape_pvar_file(fid) == scrape_pvar_lines(PvarFile(fid))

\* the block start list block_check picks: an if for chip type 9, then an
\* if for chip type 10 whose else holds for every other chip type
block_start_list(chip_type) ==
    LET after_first_if == IF chip_type = 9
                 THEN scrape_pvar_file("minichip_oxford.pvar")
                 ELSE <<>>
    IN  IF chip_type = 10
        THEN scrape_pvar_file("oxford6x6.pvar")
        ELSE scrape_pvar_file("sacla3_oxford.pvar")

\* the iteration of block_check on a read of the abort flag
block_check_ignoring_abort(flag) == "move"

block_check_on_flag(flag) == IF flag # 0 THEN "break" ELSE "move"

\* the move command of an entry of the list
block_move(entry) ==
    caput_str("me14e_pmac_str", <<"!x">> \o entry[2] \o <<"y">> \o entry[3])

\* block_check clears the abort flag
BlockCheckStart ==
    /\ bc_pc = "idle"
    /\ calls' = <<caput("me14e_gp9", 0)>>
    /\ gp9' = 0
    /\ raised' = "none"
    /\ last_op' = <<"block_check", "">>
    /\ bc_pc' = "cleared"
    /\ UNCHANGED <<bc_list, bc_next, bc_reads>>
    /\ UNCHANGED <<gp1, gp103, gp109, motor_direction, fiducial_file>>
    /\ UNCHANGED <<addr_vars, su_vars, engine_vars, zebra_vars, log_vars,
                   map_vars, fid_vars>>

\* it reads the flag and, the flag being 0, the chip type and the list
BlockCheckSelect ==
    /\ bc_pc = "cleared"
    /\ IF gp9 = 0
       THEN /\ calls' = calls \o <<caget("me14e_gp9"), caget("me14e_gp1")>>
            /\ bc_list' = block_start_list(gp1)
            /\ bc_next' = 1
            /\ bc_pc' = "iterate"
       ELSE /\ calls' = calls \o <<caget("me14e_gp9")>>
            /\ bc_pc' = "done"
            /\ UNCHANGED <<bc_list, bc_next>>
    /\ UNCHANGED <<gp9, bc_reads, raised, last_op>>
    /\ UNCHANGED <<gp1, gp103, gp109, motor_direction, fiducial_file>>
    /\ UNCHANGED <<addr_vars, su_vars, engine_vars, zebra_vars, log_vars,
                   map_vars, fid_vars>>

\* the head of an iteration: the list is over, or the flag is read
BlockCheckIterate ==
    /\ bc_pc = "iterate"
    /\ IF bc_next > Len(bc_list)
       THEN /\ bc_pc' = "done"
            /\ UNCHANGED <<calls, bc_reads>>
       ELSE /\ bc_reads' = Append(bc_reads, gp9)
            /\ IF block_check_on_flag(gp9) = "break"
               THEN /\ calls' = calls \o <<caget("me14e_gp9"), sleep(1000)>>
                    /\ bc_pc' = "done"
               ELSE /\ calls' = Append(calls, caget("me14e_gp9"))
                    /\ bc_pc' = "move"
    /\ UNCHANGED <<gp9, bc_list, bc_next, raised, last_op>>
    /\ UNCHANGED <<gp1, gp103, gp109, motor_direction, fiducial_file>>
    /\ UNCHANGED <<addr_vars, su_vars, engine_vars, zebra_vars, log_vars,
                   map_vars, fid_vars>>

\* the body of an iteration: the move to the block start and the sleep
BlockCheckMove ==
    /\ bc_pc = "move"
    /\ calls' = calls \o <<block_move(bc_list[bc_next]), sleep(400)>>
    /\ bc_next' = bc_next + 1
    /\ bc_pc' = "iterate"
    /\ UNCHANGED <<gp9, bc_list, bc_reads, raised, last_op>>
    /\ UNCHANGED <<gp1, gp103, gp109, motor_direction, fiducial_file>>
    /\ UNCHANGED <<addr_vars, su_vars, engine_vars, zebra_vars, log_vars,
                   map_vars, fid_vars>>

BlockCheckStep ==
    BlockCheckStart \/ BlockCheckSelect \/ BlockCheckIterate \/ BlockCheckMove

\* the values another party writes to the abort flag
FlagValues == {0, 1}

\* another party writes the abort flag
WriteAbortFlag(v) ==
    /\ v # gp9
    /\ gp9' = v
    /\ UNCHANGED <<bc_pc, bc_list, bc_next, bc_reads>>
    /\ UNCHANGED hw_vars
    /\ UNCHANGED <<addr_vars, su_vars, engine_vars, zebra_vars, log_vars,
                   map_vars, fid_vars>>

----------------------------------------------------------------------------
(* The state machines *)

\* contents motor_direction.txt may have: the unit-test fixture, all +1,
\* a zero coefficient, and a file with no mtr2 line
DirFiles ==
    { << DirLine("#Som", 0), DirLine("mtr1", 1), DirLine("mtr2", -1),
         DirLine("mtr3", -1) >>,
      << DirLine("mtr1", 1), DirLine("mtr2", 1), DirLine("mtr3", 1) >>,
      << DirLine("mtr1", 1), DirLine("mtr2", 1), DirLine("mtr3", 0) >>,
      << DirLine("mtr1", -1), DirLine("mtr3", 1) >> }

\* stage positions a fiducial may have been recorded at, 1e-4 mm: the
\* origin, two points near the Oxford fiducials, and two far-off points
StagePoints ==
    { <<0, 0, 0>>, <<254000, 1000, -500>>, <<-1000, 254000, 200>>,
      <<0, 0, 280000>>, <<600000, -600000, 0>> }

FiducialFiles ==
    { <<FiducialFileOf(p1), FiducialFileOf(p2)>> : p1 \in StagePoints,
                                                   p2 \in StagePoints }

NoOp == <<"none", "">>

InitMove ==
    /\ gp1 \in ChipCodes
    /\ gp103 \in BurnTimes
    /\ gp109 \in BurnTimes
    /\ motor_direction = << DirLine("mtr1", 1), DirLine("mtr2", 1),
                            DirLine("mtr3", 1) >>
    /\ fiducial_file = <<FiducialFileOf(<<0, 0, 0>>), FiducialFileOf(<<0, 0, 0>>)>>
    /\ calls = <<>>
    /\ raised = "none"
    /\ last_op = NoOp
    /\ a_chip = "1"
    /\ a_pos = 0
    /\ a_addr = <<>>
    /\ a_xy = <<>>
    /\ SuIdle
    /\ EngineIdle
    /\ ZebraIdle
    /\ OtherIdle

InitCS ==
    /\ gp1 \in ChipCodes
    /\ gp103 = 100
    /\ gp109 = 100
    /\ motor_direction \in DirFiles
    /\ fiducial_file \in FiducialFiles
    /\ calls = <<>>
    /\ raised = "none"
    /\ last_op = NoOp
    /\ a_chip = "1"
    /\ a_pos = 0
    /\ a_addr = <<>>
    /\ a_xy = <<>>
    /\ SuIdle
    /\ EngineIdle
    /\ ZebraIdle
    /\ OtherIdle

InitAddr ==
    /\ gp1 = 1
    /\ gp103 = 100
    /\ gp109 = 100
    /\ motor_direction = << DirLine("mtr1", 1), DirLine("mtr2", 1),
                            DirLine("mtr3", 1) >>
    /\ fiducial_file = <<FiducialFileOf(<<0, 0, 0>>), FiducialFileOf(<<0, 0, 0>>)>>
    /\ calls = <<>>
    /\ raised = "none"
    /\ last_op = NoOp
    /\ a_chip \in SupportedChipTypes
    /\ a_pos = 0
    /\ a_addr = <<>>
    /\ a_xy = <<>>
    /\ SuIdle
    /\ EngineIdle
    /\ ZebraIdle
    /\ OtherIdle

InitSU ==
    /\ gp1 \in {1, 3}
    /\ gp103 = 100
    /\ gp109 = 100
    /\ motor_direction = << DirLine("mtr1", 1), DirLine("mtr2", 1),
                            DirLine("mtr3", 1) >>
    /\ fiducial_file = <<FiducialFileOf(<<0, 0, 0>>), FiducialFileOf(<<0, 0, 0>>)>>
    /\ calls = <<>>
    /\ raised = "none"
    /\ last_op = NoOp
    /\ a_chip = "1"
    /\ a_pos = 0
    /\ a_addr = <<>>
    /\ a_xy = <<>>
    /\ \E v \in PvValues :
          parameters_txt = write_parameter_file(gp1, gp103, gp109, v).file
    /\ disk \in InitialDisks
    /\ EngineIdle
    /\ ZebraIdle
    /\ OtherIdle

\* the next site of the shot order and the one after it are handed to get_xy
VisitNextSite ==
    /\ a_pos + 2 <= Len(shot_order_of[a_chip])
    /\ a_pos' = a_pos + 1
    /\ a_addr' = << shot_order_of[a_chip][a_pos + 1],
                    shot_order_of[a_chip][a_pos + 2] >>
    /\ a_xy' = << get_xy(a_addr'[1], a_chip), get_xy(a_addr'[2], a_chip) >>
    /\ UNCHANGED a_chip
    /\ UNCHANGED <<hw_vars, su_vars, engine_vars, zebra_vars, other_vars>>

NextMove ==
    \/ \E place \in Places : Moveto(place)
    \/ \E exptime \in ExposureTimes : PumpprobeCalc(exptime)

NextCS == CsMaker \/ CsReset

NextAddr == VisitNextSite

SpecMove == InitMove /\ [][NextMove]_vars

SpecCS == InitCS /\ [][NextCS]_vars

SpecAddr == InitAddr /\ [][NextAddr]_vars

InitEngine ==
    /\ gp1 = 1
    /\ gp103 = 100
    /\ gp109 = 100
    /\ motor_direction = << DirLine("mtr1", 1), DirLine("mtr2", 1),
                            DirLine("mtr3", 1) >>
    /\ fiducial_file = <<FiducialFileOf(<<0, 0, 0>>), FiducialFileOf(<<0, 0, 0>>)>>
    /\ calls = <<>>
    /\ raised = "none"
    /\ last_op = NoOp
    /\ a_chip = "1"
    /\ a_pos = 0
    /\ a_addr = <<>>
    /\ a_xy = <<>>
    /\ SuIdle
    /\ EngineIdle
    /\ ZebraIdle
    /\ OtherIdle

NextEngine ==
    \/ \E chip_type \in ChipTypeIds : CallGetFormat(chip_type)
    \/ \E l_in \in Lists, way \in Ways, reverse \in BOOLEAN :
          CallPathli(l_in, way, reverse)

SpecEngine == InitEngine /\ [][NextEngine]_vars

NextSU == StartupRun \/ \E v \in PvValues : WriteParameterFile(v)

SpecSU == InitSU /\ [][NextSU]_vars

\* the zebra before any plan: disarmed, the fast shutter closed, nothing set
InitZebra ==
    /\ gp1 = 1
    /\ gp103 = 100
    /\ gp109 = 100
    /\ motor_direction = << DirLine("mtr1", 1), DirLine("mtr2", 1),
                            DirLine("mtr3", 1) >>
    /\ fiducial_file = <<FiducialFileOf(<<0, 0, 0>>), FiducialFileOf(<<0, 0, 0>>)>>
    /\ calls = <<>>
    /\ raised = "none"
    /\ last_op = NoOp
    /\ a_chip = "1"
    /\ a_pos = 0
    /\ a_addr = <<>>
    /\ a_xy = <<>>
    /\ SuIdle
    /\ EngineIdle
    /\ z_call = [fn |-> "none"]
    /\ z_plan = <<>>
    /\ zebra = [s \in Signals |->
                  IF s = "pc.arm" THEN ZVal("Disarm")
                  ELSE IF s = "inputs.soft_in_2" THEN ZVal("Close")
                  ELSE ZVal("unset")]
    /\ z_pending = {}
    /\ z_log = <<>>
    /\ z_started = 0
    /\ OtherIdle

NextZebra ==
    /\ \/ \E c \in PlanCalls : RunPlan(c)
       \/ ZebraSet
       \/ \E p \in z_pending : ZebraSetDone(p)
       \/ ZebraWait
       \/ ZebraSleep
    /\ UNCHANGED <<hw_vars, addr_vars, su_vars, engine_vars, other_vars>>

SpecZebra == InitZebra /\ [][NextZebra]_vars

NextPumpProbe ==
    /\ \/ \E c \in PumpProbeCalls : RunPlan(c)
       \/ ZebraSet
       \/ \E p \in z_pending : ZebraSetDone(p)
       \/ ZebraWait
    /\ UNCHANGED <<hw_vars, addr_vars, su_vars, engine_vars, other_vars>>

SpecPumpProbe == InitZebra /\ [][NextPumpProbe]_vars

\* a parameter file is on disk and neither reader has been called
InitParams ==
    /\ gp1 = 1
    /\ gp103 = 100
    /\ gp109 = 50
    /\ motor_direction = << DirLine("mtr1", 1), DirLine("mtr2", 1),
                            DirLine("mtr3", 1) >>
    /\ fiducial_file = <<FiducialFileOf(<<0, 0, 0>>), FiducialFileOf(<<0, 0, 0>>)>>
    /\ calls = <<>>
    /\ raised = "none"
    /\ last_op = NoOp
    /\ a_chip = "1"
    /\ a_pos = 0
    /\ a_addr = <<>>
    /\ a_xy = <<>>
    /\ parameters_txt \in ParameterFiles
    /\ disk = [x \in {<<"", "">>} |-> << <<"<dir>">> >>]
    /\ EngineIdle
    /\ ZebraIdle
    /\ OtherIdle

NextParams == CallScrapeParameterFile \/ CallReadParameters

SpecParams == InitParams /\ [][NextParams]_vars

\* the log module has been loaded, on a beamline or not
InitLog ==
    /\ gp1 = 1
    /\ gp103 = 100
    /\ gp109 = 100
    /\ motor_direction = << DirLine("mtr1", 1), DirLine("mtr2", 1),
                            DirLine("mtr3", 1) >>
    /\ fiducial_file = <<FiducialFileOf(<<0, 0, 0>>), FiducialFileOf(<<0, 0, 0>>)>>
    /\ calls = <<>>
    /\ raised = "none"
    /\ last_op = NoOp
    /\ a_chip = "1"
    /\ a_pos = 0
    /\ a_addr = <<>>
    /\ a_xy = <<>>
    /\ SuIdle
    /\ EngineIdle
    /\ ZebraIdle
    /\ beamline \in {"", "i24"}
    /\ handlers = module_loaded
    /\ log_dirs = {}
    /\ log_call = [fn |-> "none"]
    /\ MapIdle
    /\ BcIdle
    /\ FidIdle

NextLog ==
    \E logfile \in LogFiles, write_mode \in WriteModes, delayed \in BOOLEAN :
        Config(logfile, write_mode, delayed)

SpecLog == InitLog /\ [][NextLog]_vars

\* the stock maps an earlier session may have left on the screen
EarlierMaps == {"clear", "x99"}

\* the lite map screen before any stock map is loaded
InitMap ==
    /\ gp1 = 1
    /\ gp103 = 100
    /\ gp109 = 100
    /\ motor_direction = << DirLine("mtr1", 1), DirLine("mtr2", 1),
                            DirLine("mtr3", 1) >>
    /\ fiducial_file = <<FiducialFileOf(<<0, 0, 0>>), FiducialFileOf(<<0, 0, 0>>)>>
    /\ calls = <<>>
    /\ raised = "none"
    /\ last_op = NoOp
    /\ a_chip = "1"
    /\ a_pos = 0
    /\ a_addr = <<>>
    /\ a_xy = <<>>
    /\ SuIdle
    /\ EngineIdle
    /\ ZebraIdle
    /\ LogIdle
    /\ BcIdle
    /\ FidIdle
    /\ \E earlier \in EarlierMaps :
          block_pvs = [x \in ScreenBlocks |->
                          IF \E k \in DOMAIN map_dict(earlier) :
                                 map_dict(earlier)[k] = x
                          THEN 1 ELSE 0]
    /\ currentchip_map = <<>>
    /\ block_dict = <<>>

NextMap ==
    \/ \E map_choice \in MapChoices : LoadStockMap(map_choice)
    \/ SaveScreenMap
    \/ \E lite \in LiteFiles : LoadLiteMap(lite)

SpecMap == InitMap /\ [][NextMap]_vars

\* block_check is about to be called, for any chip type and flag
InitBlockCheck ==
    /\ gp1 \in ChipCodes
    /\ gp103 = 100
    /\ gp109 = 100
    /\ motor_direction = << DirLine("mtr1", 1), DirLine("mtr2", 1),
                            DirLine("mtr3", 1) >>
    /\ fiducial_file = <<FiducialFileOf(<<0, 0, 0>>), FiducialFileOf(<<0, 0, 0>>)>>
    /\ calls = <<>>
    /\ raised = "none"
    /\ last_op = NoOp
    /\ a_chip = "1"
    /\ a_pos = 0
    /\ a_addr = <<>>
    /\ a_xy = <<>>
    /\ SuIdle
    /\ EngineIdle
    /\ ZebraIdle
    /\ LogIdle
    /\ MapIdle
    /\ gp9 \in FlagValues
    /\ bc_pc = "idle"
    /\ bc_list = <<>>
    /\ bc_next = 0
    /\ bc_reads = <<>>
    /\ FidIdle

NextBlockCheck ==
    \/ BlockCheckStart
    \/ BlockCheckSelect
    \/ BlockCheckIterate
    \/ BlockCheckMove
    \/ \E v \in FlagValues : WriteAbortFlag(v)

SpecBlockCheck == InitBlockCheck /\ [][NextBlockCheck]_vars

\* block_check runs on; the party that writes the flag need not
SpecBlockCheckFair == SpecBlockCheck /\ WF_vars(BlockCheckStep)

\* the chip types the fiducials are recorded for: Oxford, and one that
\* cs_maker has no spacing for
FiducialChipTypes == {1, 11}

\* both fiducial files were written at the origin; the stage is anywhere
InitFid ==
    /\ gp1 \in FiducialChipTypes
    /\ gp103 = 100
    /\ gp109 = 100
    /\ motor_direction = << DirLine("mtr1", 1), DirLine("mtr2", -1),
                            DirLine("mtr3", -1) >>
    /\ fiducial_file =
          << fiducial(<<0, 0, 0>>, <<0, 0, 0>>, <<1, -1, -1>>),
             fiducial(<<0, 0, 0>>, <<0, 0, 0>>, <<1, -1, -1>>) >>
    /\ calls = <<>>
    /\ raised = "none"
    /\ last_op = NoOp
    /\ a_chip = "1"
    /\ a_pos = 0
    /\ a_addr = <<>>
    /\ a_xy = <<>>
    /\ SuIdle
    /\ EngineIdle
    /\ ZebraIdle
    /\ LogIdle
    /\ MapIdle
    /\ BcIdle
    /\ stage \in StageReadbacks
    /\ fid_read = << <<0, 0, 0>>, <<0, 0, 0>> >>

NextFid ==
    \/ \E point \in FiducialPoints : Fiducial(point)
    \/ \E s \in StageReadbacks : MoveStage(s)
    \/ CsMaker

SpecFid == InitFid /\ [][NextFid]_vars

\* the chip manager, every operation of its command line
Init == InitMove \/ InitCS

Next == NextMove \/ NextCS

Spec == Init /\ [][Next]_vars

----------------------------------------------------------------------------
(* Claims *)

\* the sines computed by the last cs_maker, from the files it read
SinesOfState ==
    cs_angles(gp1, scrape_mtr_fiducials(fiducial_file[1]),
              scrape_mtr_fiducials(fiducial_file[2]))

\* C1: when cs_maker runs to completion its motion-controller commands are,
\* in this order, the zero move, the group select "&2", the assignments of
\* rows 1, 2 and 3, the zero move again and home-all-axes; the offset move
\* "!x0.4y0.4" comes after these exactly when the chip type is 1, and the
\* last command is always home-all-axes.
C1_CsMakerCommandOrder ==
    (last_op[1] = "cs_maker" /\ raised = "none") =>
        LET p == PmacCommands
        IN  /\ Len(p) >= 8
            /\ p[1] = <<"!x0y0z0">>
            /\ p[2] = <<"&2">>
            /\ p[3][1] = "#1->"
            /\ p[4][1] = "#2->"
            /\ p[5][1] = "#3->"
            /\ p[6] = <<"!x0y0z0">>
            /\ p[7] = <<"#1hmz#2hmz#3hmz">>
            /\ \A i \in 1 .. 7 : p[i] # <<"!x0.4y0.4">>
            /\ (gp1 = 1) <=> (\E i \in 8 .. Len(p) : p[i] = <<"!x0.4y0.4">>)
            /\ (gp1 = 1) => p[8] = <<"!x0.4y0.4">>
            /\ p[Len(p)] = <<"#1hmz#2hmz#3hmz">>

\* cs_maker has completed for an Oxford chip, offset move included
C1_Witness ==
    /\ last_op[1] = "cs_maker"
    /\ raised = "none"
    /\ gp1 = 1
    /\ Len(PmacCommands) = 9

\* C2: if one of the three sines of cs_maker has magnitude above 1 the
\* calibration ends with an error and sends no motion-controller command;
\* no command carries a NaN factor.
C2_SineOutOfDomainIsFatal ==
    (/\ last_op[1] = "cs_maker"
     /\ gp1 \in 0 .. 10
     /\ \/ SinesOfState.Sz.mag > 1000
        \/ SinesOfState.Sy.mag > 1000
        \/ SinesOfState.Sx.mag > 1000)
    => /\ raised # "none"
       /\ PmacCommands = <<>>
       /\ \A i \in 1 .. Len(PmacCommands) :
            \A k \in 1 .. Len(PmacCommands[i]) : PmacCommands[i][k] # "+nan"

C4_BadDirectionIsFatal ==
    (/\ last_op[1] = "cs_maker"
     /\ gp1 \in 0 .. 10
     /\ \E i \in 1 .. 3 : scrape_mtr_directions(motor_direction)[i] \notin {1, -1})
    => /\ raised # "none"
       /\ PmacCommands = <<>>

\* C8: cs_reset writes exactly four commands to the motion-controller
\* channel and nothing else, "&2" and then the three fixed assignments,
\* whatever the chip type, the parameter files and the operation before it.
C8_CsResetCommands ==
    (last_op[1] = "cs_reset") =>
        /\ raised = "none"
        /\ Len(Writes) = 4
        /\ PmacCommands = << <<"&2">>, <<"#1->-10000X+0Y+0Z">>,
                             <<"#2->+0X+10000Y+0Z">>, <<"#3->0X+0Y+10000Z">> >>

\* cs_reset has run with a chip type outside the table and fiducials away
\* from the origin
C8_Witness ==
    /\ last_op[1] = "cs_reset"
    /\ gp1 = 11
    /\ scrape_mtr_fiducials(fiducial_file[1]) # <<0, 0, 0>>
    /\ Len(PmacCommands) = 4

\* the two writes of a move to the origin
OriginWrites == << caput("me14e_stage_x", 0), caput("me14e_stage_y", 0) >>

\* C9 as stated: moveto("origin") reads the chip type once and writes 0.0 to
\* the x and to the y stage target, and nothing else, for every chip type
\* code of the fiducial spacing table (0 to 10).
C9_OriginForEveryTableChipType ==
    (last_op = <<"moveto", "origin">> /\ gp1 \in 0 .. 10) =>
        /\ Len(Reads) = 1
        /\ Writes = OriginWrites

\* C9 amended: moveto("origin") reads the chip type once; for the chip types
\* moveto has a branch for (0 to 10 without 4) it writes 0.0 to the x and to
\* the y stage target and nothing else; for chip type 4 it writes nothing.
C9_OriginForEveryMovetoChipType ==
    (last_op = <<"moveto", "origin">> /\ gp1 \in 0 .. 10) =>
        /\ Len(Reads) = 1
        /\ Reads[1].pv = "me14e_gp1"
        /\ Writes = IF gp1 = 4 THEN <<>> ELSE OriginWrites

\* moveto("origin") has run for the last chip type of the table
C9_Witness ==
    /\ last_op = <<"moveto", "origin">>
    /\ gp1 = 10
    /\ Len(Writes) = 2

\* C10: with a chip type moveto has no branch for, a chip-relative position
\* makes no write and raises nothing, and a chip-independent position makes
\* its own writes, those it makes for a chip type moveto knows ("zero": the
\* single command "!x0y0z0").
C10_UnknownChipTypeMoves ==
    (last_op[1] = "moveto" /\ gp1 \notin ((0 .. 10) \ {4})) =>
        /\ raised = "none"
        /\ last_op[2] \in {"origin", "f1", "f2"} => Writes = <<>>
        /\ last_op[2] = "zero" =>
                Writes = << caput_str("me14e_pmac_str", <<"!x0y0z0">>) >>
        /\ last_op[2] \notin {"origin", "f1", "f2"} =>
                Writes = SelectCalls(moveto(last_op[2], 1, gp103, gp109), "caput")

\* moveto("zero") has run with chip type 4, which moveto does not know
C10_Witness ==
    /\ last_op = <<"moveto", "zero">>
    /\ gp1 = 4
    /\ Len(Writes) = 1

\* whether the shot order of a chip type holds every address of its
\* alphanumeric order exactly once
shot_is_permutation ==
    [c \in SupportedChipTypes |->
        LET s == shot_order_of[c]
            a == alphanumeric_of[c]
            S == {s[i] : i \in 1 .. Len(s)}
        IN  /\ Len(s) = Len(a)
            /\ Cardinality(S) = Len(s)
            /\ S = {a[i] : i \in 1 .. Len(a)}]

\* C5: for every supported chip type the order of get_shot_order holds every
\* address exactly once and has the same addresses as the order of
\* get_alphanumeric.
C5_ShotOrderIsPermutation ==
    (a_chip \in SupportedChipTypes) =>
        shot_is_permutation[a_chip]

\* the walk through the shot order of the Oxford chip has passed the first
\* column of blocks
C5_Witness ==
    /\ a_chip = "1"
    /\ a_pos = 3201
    /\ a_addr[1][1] = "H"
    /\ a_addr[1][2] = "2"

\* |a - b|
AbsDiff(a, b) == IF a < b THEN b - a ELSE a - b

\* C6: every two consecutive sites of the shot order are adjacent: get_xy
\* gives them the same coordinate on one axis and, on the other, coordinates
\* one grid step apart (the well pitch, or the step between two blocks).
C6_ConsecutiveSitesAdjacent ==
    (a_pos >= 1) =>
        LET f == get_format(a_chip).fmt
            p == a_xy[1]
            q == a_xy[2]
        IN  /\ p.raised = "none"
            /\ q.raised = "none"
            /\ \/ p.x = q.x /\ AbsDiff(p.y, q.y) \in {f[5], f[7]}
               \/ p.y = q.y /\ AbsDiff(p.x, q.x) \in {f[5], f[6]}

\* whether get_xy gives every address of a chip type a pair of its own
xy_is_injective ==
    [c \in SupportedChipTypes |->
        LET a == alphanumeric_of[c]
            XY == {get_xy(a[i], c) : i \in 1 .. Len(a)}
        IN  /\ \A r \in XY : r.raised = "none"
            /\ Cardinality(XY) = Len(a)]

\* C7: get_xy is injective over the addresses of a supported chip type: it
\* gives every address of get_alphanumeric an (x, y) pair, and no two
\* addresses the same pair.
C7_GetXYInjective ==
    (a_chip \in SupportedChipTypes) => xy_is_injective[a_chip]

\* the position names moveto has a branch for
KnownPlaces ==
    {"origin", "f1", "f2", "zero", "yag", "load_position", "collect_position",
     "microdrop_position", "lightin", "lightout", "flipperin", "flipperout",
     "laser1on", "laser1off", "laser2on", "laser2off", "laser1burn",
     "laser2burn"}

\* C11: moveto with a position name that is neither chip-relative nor one of
\* the chip-independent positions fails with an unknown-position error; it
\* does not return silently.
C11_UnknownPlaceIsAnError ==
    (last_op[1] = "moveto" /\ last_op[2] \notin KnownPlaces) => raised # "none"

\* the calls of the last operation after its reads of control points
RECURSIVE AfterReads(_)
AfterReads(s) ==
    IF s = <<>> THEN <<>>
    ELSE IF Head(s).call = "caget" THEN AfterReads(Tail(s)) ELSE s

\* the open and close commands of the laser a burn position names
BurnOpen == [laser1burn |-> <<" M712=1 M711=1">>, laser2burn |-> <<" M812=1 M811=1">>]

BurnClose == [laser1burn |-> <<" M712=0 M711=1">>, laser2burn |-> <<" M812=0 M811=1">>]

\* C12: a laser burn sends exactly two commands on the motion-controller
\* channel, the open command of its laser and then its close command, with
\* the blocking sleep between the two; the last call of a burn is the close
\* command.
C12_BurnOpensDwellsCloses ==
    (last_op[1] = "moveto" /\ last_op[2] \in {"laser1burn", "laser2burn"}) =>
        LET c == AfterReads(calls)
        IN  /\ raised = "none"
            /\ Len(Writes) = 2
            /\ PmacCommands = << BurnOpen[last_op[2]], BurnClose[last_op[2]] >>
            /\ Len(c) = 3
            /\ c[1] = caput_str("me14e_pmac_str", BurnOpen[last_op[2]])
            /\ c[2].call = "sleep"
            /\ c[3] = caput_str("me14e_pmac_str", BurnClose[last_op[2]])
            /\ calls[Len(calls)] = c[3]

\* a burn of laser 2 has run with a dwell of 2.5 s configured
C12_Witness ==
    /\ last_op = <<"moveto", "laser2burn">>
    /\ gp109 = 2500
    /\ Len(PmacCommands) = 2

\* the dwell configured for the burn position of the last operation, ms
ConfiguredDwell == IF last_op[2] = "laser1burn" THEN gp103 ELSE gp109

\* C13: the time a laser burn blocks between the open and the close command
\* equals the dwell read from the control point, non-integer values
\* included.
C13_BurnDwellIsConfiguredDwell ==
    (last_op[1] = "moveto" /\ last_op[2] \in {"laser1burn", "laser2burn"}) =>
        LET sl == SelectCalls(calls, "sleep")
        IN  /\ Len(sl) = 1
            /\ sl[1].num = ConfiguredDwell

\* C14: re-running the start-up for a chip whose per-chip file exists never
\* overwrites or truncates that file: whatever a run changes or removes is
\* kept, with the content it had, under a name that was not there before.
C14_RerunPreservesExistingFiles ==
    [][ (last_op'[1] \in {"run", "write_parameter_file"}) =>
            \A path \in DOMAIN disk :
                (path \notin DOMAIN disk' \/ disk'[path] # disk[path]) =>
                    \E q \in (DOMAIN disk') \ (DOMAIN disk) :
                        disk'[q] = disk[path] ]_vars

\* C15: get_format called with a chip type identifier outside the supported
\* set ends with an error and returns no format.
C15_UnsupportedChipTypeHasNoFormat ==
    (e_call.fn = "get_format" /\ e_call.chip_type \notin {"1", "3", "9"}) =>
        /\ e_result.raised # "none"
        /\ e_result.fmt = <<>>

\* get_format has been called with chip type "2"
C15_Witness ==
    /\ e_call.fn = "get_format"
    /\ e_call.chip_type = "2"
    /\ e_result.raised = "UnboundLocalError"

\* C16: for every supported chip type get_format returns block counts and
\* window counts that are at least 1, and a well pitch and two block
\* pitches that are not negative.
C16_FormatCountsPositivePitchesNonNegative ==
    (e_call.fn = "get_format" /\ e_call.chip_type \in {"1", "3", "9"}) =>
        /\ e_result.raised = "none"
        /\ Len(e_result.fmt) = 7
        /\ \A i \in 1 .. 4 : e_result.fmt[i] >= 1
        /\ \A i \in 5 .. 7 : e_result.fmt[i] >= 0

\* get_format has been called with chip type "3", whose block pitches are 0
C16_Witness ==
    /\ e_call.fn = "get_format"
    /\ e_call.chip_type = "3"
    /\ e_result.raised = "none"
    /\ e_result.fmt[6] = 0

\* C17: pathli ends with an invalid-traversal-order error when given a token
\* it does not know and a list that is not empty; an empty list gives the
\* empty sequence, without error, for every token.
C17_UnknownWayIsAnError ==
    (e_call.fn = "pathli") =>
        IF e_call.l_in = <<>>
        THEN e_result.raised = "none" /\ e_result.value = <<>>
        ELSE (e_call.way \notin {"typewriter", "snake", "snake53", "expand",
                                 "expand28", "expand25"})
                => e_result.raised # "none"

\* the case of C18: the Oxford chip, direction coefficients (1, 1, 1) and
\* both fiducials measured at the origin, after cs_maker
DegenerateOxfordCalibration ==
    /\ last_op[1] = "cs_maker"
    /\ gp1 = 1
    /\ scrape_mtr_directions(motor_direction) = <<1, 1, 1>>
    /\ scrape_mtr_fiducials(fiducial_file[1]) = <<0, 0, 0>>
    /\ scrape_mtr_fiducials(fiducial_file[2]) = <<0, 0, 0>>

\* a coefficient that is zero, of either sign
IsZeroCoefficient(t) == t \in {"+0.000", "-0.000"}

\* C18 as stated: in that case the three sines are 0 and the rows sent are
\* the nominal scales on the diagonal, the other coefficients of rows 1 and
\* 2 being zero.
C18_DegenerateRowsAreNominalScales ==
    DegenerateOxfordCalibration =>
        /\ SinesOfState.Sz.mag = 0
        /\ SinesOfState.Sy.mag = 0
        /\ SinesOfState.Sx.mag = 0
        /\ PmacCommands[3][2] = "+10018.000"
        /\ IsZeroCoefficient(PmacCommands[3][4])
        /\ IsZeroCoefficient(PmacCommands[3][6])
        /\ IsZeroCoefficient(PmacCommands[4][2])
        /\ PmacCommands[4][4] = "+9999.500"
        /\ IsZeroCoefficient(PmacCommands[4][6])

\* C18 amended: in that case the three sines are 0 and the rotation is the
\* identity; row 3 is the nominal z scale alone, and rows 1 and 2 are the
\* nominal x and y scales turned by the half-angle skew of -0.189 degrees:
\* x and y coefficients +10017.986, -16.523 and -16.493, +9999.486.
C18_DegenerateRowsAreSkewedScales ==
    DegenerateOxfordCalibration =>
        /\ raised = "none"
        /\ SinesOfState.Sz.mag = 0
        /\ SinesOfState.Sy.mag = 0
        /\ SinesOfState.Sx.mag = 0
        /\ SinesOfState.Cz = F(1000)
        /\ SinesOfState.Cy = F(1000)
        /\ SinesOfState.Cx = F(1000)
        /\ PmacCommands[3][1] = "#1->"
        /\ PmacCommands[3][2] = "+10017.986"
        /\ PmacCommands[3][4] = "-16.523"
        /\ IsZeroCoefficient(PmacCommands[3][6])
        /\ PmacCommands[4][1] = "#2->"
        /\ PmacCommands[4][2] = "-16.493"
        /\ PmacCommands[4][4] = "+9999.486"
        /\ IsZeroCoefficient(PmacCommands[4][6])
        /\ PmacCommands[5][1] = "#3->"
        /\ IsZeroCoefficient(PmacCommands[5][2])
        /\ IsZeroCoefficient(PmacCommands[5][4])
        /\ PmacCommands[5][6] = "+10000.000"

\* cs_maker has run in the case of C18
C18_Witness ==
    /\ DegenerateOxfordCalibration
    /\ Len(PmacCommands) = 9

\* a message yielded by zebra_return_to_normal_plan, or by a plan it calls,
\* within reset_zebra_when_collection_done_plan
ReturnToNormalOfReset(m) ==
    {"reset_zebra_when_collection_done_plan", "zebra_return_to_normal_plan"}
        \subseteq m.within

\* a message yielded by the given plan within
\* reset_zebra_when_collection_done_plan
StepOfReset(m, fn) ==
    {"reset_zebra_when_collection_done_plan", fn} \subseteq m.within

\* the disarm has completed: the device is disarmed and no set of pc.arm is
\* pending
Disarmed ==
    /\ zebra["pc.arm"] = ZVal("Disarm")
    /\ \A q \in z_pending : q.msg.sig # "pc.arm"

\* the fast shutter has been closed: the device holds Close and no set of
\* it is pending
ShutterClosed ==
    /\ zebra["inputs.soft_in_2"] = ZVal("Close")
    /\ \A q \in z_pending : q.msg.sig # "inputs.soft_in_2"

\* the run engine starts the set at the head of the plan
Starts(m) ==
    /\ z_plan # <<>>
    /\ Head(z_plan) = m
    /\ m.op = "set"
    /\ z_log' = Append(z_log, m)

\* C19: in reset_zebra_when_collection_done_plan the set that closes the
\* fast shutter is the first one started, the disarm is started next and
\* only once the shutter is closed, and every setting of
\* zebra_return_to_normal_plan is started, and lands on the device, only
\* after the disarm has completed: none is written while the zebra is armed.
C19_ReturnToNormalOnlyWhenDisarmed ==
    [][ /\ \A i \in DOMAIN z_plan :
              LET m == z_plan[i]
              IN  /\ (StepOfReset(m, "close_fast_shutter") /\ Starts(m)) =>
                        z_log = <<>>
                  /\ (StepOfReset(m, "disarm_zebra") /\ Starts(m)) =>
                        /\ Len(z_log) = 1
                        /\ z_log[1].sig = "inputs.soft_in_2"
                        /\ z_log[1].val = ZVal("Close")
                        /\ ShutterClosed
                  /\ (ReturnToNormalOfReset(m) /\ Starts(m)) =>
                        /\ Len(z_log) >= 2
                        /\ z_log[2].sig = "pc.arm"
                        /\ z_log[2].val = ZVal("Disarm")
                        /\ Disarmed
        /\ \A p \in z_pending \ z_pending' :
              ReturnToNormalOfReset(p.msg) => Disarmed
      ]_vars

\* reset_zebra_when_collection_done_plan runs on an armed zebra: the shutter
\* is closed, the disarm is started and not yet done, the run engine is at
\* the wait for it and no return-to-normal setting has been started
C19_Witness ==
    /\ z_call.fn = "reset_zebra_when_collection_done_plan"
    /\ Len(z_log) = 2
    /\ ShutterClosed
    /\ zebra["pc.arm"] = ZVal("Arm")
    /\ \E q \in z_pending :
          q.msg.sig = "pc.arm" /\ q.msg.val = ZVal("Disarm")
    /\ z_plan # <<>>
    /\ Head(z_plan).op = "wait"
    /\ \E i \in DOMAIN z_plan : ReturnToNormalOfReset(z_plan[i])

\* setup_zebra_for_quickshot_plan, called with wait, has run to its end
QuickshotCompleted ==
    /\ z_call.fn = "setup_zebra_for_quickshot_plan"
    /\ z_call.wait
    /\ z_plan = <<>>

\* C20: after setup_zebra_for_quickshot_plan completes the gate source is
\* 'External', the pulse source is 'Time', the gate start is 1.0 and the
\* gate width is exposure time times number of images plus 0.5.
C20_QuickshotGateExternalPulseTime ==
    QuickshotCompleted =>
        /\ zebra["pc.gate_source"] = ZVal("External")
        /\ zebra["pc.pulse_source"] = ZVal("Time")
        /\ zebra["pc.gate_start"] = ZNum(10000)
        /\ zebra["pc.gate_width"] =
              ZNum(z_call.exp_time * z_call.num_images + 5000)

\* setup_zebra_for_extruder_with_pump_probe_plan, called with wait, has run
\* to its end
PumpProbeCompleted ==
    /\ z_call.fn = "setup_zebra_for_extruder_with_pump_probe_plan"
    /\ z_call.wait
    /\ z_plan = <<>>

\* the TTL output of the detector in use and the TTL output of the laser:
\* OUT1_TTL is the Eiger's cable, OUT2_TTL the Pilatus's
DetectorOut == IF z_call.det_type = "eiger" THEN "output.out_1" ELSE "output.out_2"
LaserOut == IF z_call.det_type = "eiger" THEN "output.out_2" ELSE "output.out_1"

\* the two sources of the AND gate an output is driven by
GateSources(out) ==
    LET gate == IF zebra[out] = ZVal("AND3") THEN "logic_gates.and_gate_3"
                ELSE IF zebra[out] = ZVal("AND4") THEN "logic_gates.and_gate_4"
                ELSE "none"
    IN  IF gate = "none" THEN {}
        ELSE {zebra[gate \o ".source_1"].str, zebra[gate \o ".source_2"].str}

C22_ReadParametersAgreesWithScrape ==
    (e_call.fn = "read_parameters" /\ scrape_accepts(parameters_txt)) =>
        /\ e_result.raised = "none"
        /\ \A k \in ScrapedNames :
              /\ k \in DOMAIN e_result.value
              /\ e_result.value[k] = <<scrape_parameter_file(parameters_txt)[k]>>

\* C23: pumpprobe_calc reads exactly two control points, the exposure time
\* and the laser dwell time, and performs exactly five writes, in order
\* repeat1, repeat2, repeat3, repeat5, repeat10, where
\* repeatN = 2 * N * 20 * (0.008 + (laser dwell + exposure time) / 2).
C23_PumpprobeCalcTwoReadsFiveWrites ==
    last_op[1] = "pumpprobe_calc" =>
        \E exptime \in ExposureTimes :
            /\ last_op[2] = ToString(exptime)
            /\ Reads = <<caget("me14e_exptime"), caget("me14e_gp103")>>
            /\ Writes =
                  [i \in 1 .. 5 |->
                      LET N == <<1, 2, 3, 5, 10>>[i]
                      IN  caput(<<"me14e_gp104", "me14e_gp105", "me14e_gp106",
                                  "me14e_gp107", "me14e_gp108">>[i],
                                N * 20 * (160 + gp103 + exptime))]

\* the handlers of 'I24ssx' are the console handler at level DEBUG followed
\* by file handlers at level DEBUG
ConsoleThenFiles(h) ==
    /\ Len(h) >= 1
    /\ h[1].class = "StreamHandler"
    /\ h[1].level = "DEBUG"
    /\ \A i \in 2 .. Len(h) : h[i].class = "FileHandler" /\ h[i].level = "DEBUG"

\* the directory log files are written to
LogDirectory ==
    IF beamline # "" THEN "/dls_sw/" \o beamline \o "/logs/serial" ELSE "tmp/logs"

\* C24: once the log module is loaded the logger has exactly one handler,
\* the console handler at level DEBUG; a call of config with a file name
\* appends exactly one file handler at level DEBUG and the log directory
\* exists after it; a call without a file name leaves the handlers as they
\* are.  Hence the logger holds 1 + n handlers after n calls with a name.
C24_OneHandlerPerNamedConfig ==
    [][ /\ (log_call.fn = "none" /\ handlers # <<>>) =>
              (Len(handlers) = 1 /\ ConsoleThenFiles(handlers))
        /\ log_call'.fn = "config" =>
              /\ ConsoleThenFiles(handlers')
              /\ IF log_call'.logfile # ""
                 THEN /\ Len(handlers') = Len(handlers) + 1
                      /\ SubSeq(handlers', 1, Len(handlers)) = handlers
                      /\ handlers'[Len(handlers')].file =
                            LogDirectory \o "/" \o log_call'.logfile
                      /\ LogDirectory \in log_dirs'
                 ELSE handlers' = handlers /\ log_dirs' = log_dirs
      ]_vars

\* config has been called twice with a file name and then once without
C24_Witness ==
    /\ log_call.fn = "config"
    /\ log_call.logfile = ""
    /\ Len(handlers) = 3
    /\ handlers[2].file = "tmp/logs/dummy.log"
    /\ "tmp/logs" \in log_dirs

BlocksOf(s) == {s[k] : k \in DOMAIN s}

\* C26: after load_stock_map(m) for a known map name m, whatever was
\* loaded before, the block-enable state is exactly map m: for every block
\* 1 to 81 the control point is 1 if the block is in m and 0 otherwise.
C26_StockMapIsExactlyLoaded ==
    (last_op[1] = "load_stock_map" /\ last_op[2] \in map_dict_keys) =>
        \A x \in ScreenBlocks :
            block_pvs[x] = IF x \in BlocksOf(map_dict(last_op[2])) THEN 1 ELSE 0

\* a read of the abort flag in the block iteration has returned nonzero
AbortSeen == \E k \in DOMAIN bc_reads : bc_reads[k] # 0

\* the move commands of the first n entries of the block start list
MovesOfEntries(n) ==
    [k \in 1 .. n |-> <<"!x">> \o bc_list[k][2] \o <<"y">> \o bc_list[k][3]]

\* C27: block_check always terminates; once a read of the abort flag in
\* the block iteration has returned a nonzero value it sends no further
\* move command; the moves it sends are those of the list entries, in list
\* order, and with every read returning 0 there is exactly one per entry.
C27_BlockCheckTerminatesAndHonoursAbort ==
    /\ <>(bc_pc = "done")
    /\ [][AbortSeen' => PmacOf(calls') = PmacOf(calls)]_vars
    /\ [](PmacCommands = MovesOfEntries(Len(PmacCommands)))
    /\ []((bc_pc = "done" /\ bc_next >= 1 /\ ~AbortSeen) =>
             PmacCommands = MovesOfEntries(Len(bc_list)))

\* block_check has been stopped by the flag after its first move and
\* before its last
C27_Witness ==
    /\ bc_pc = "done"
    /\ AbortSeen
    /\ Len(PmacCommands) >= 1
    /\ Len(PmacCommands) < Len(bc_list)

\* the .pvar file that belongs to a chip type
PvarFileOfChipType(chip_type) ==
    IF chip_type = 9 THEN "minichip_oxford.pvar"
    ELSE IF chip_type = 10 THEN "oxford6x6.pvar"
    ELSE "sacla3_oxford.pvar"

\* C28: block_check visits the block start list of the current chip type:
\* that of minichip_oxford.pvar for chip type 9, of oxford6x6.pvar for 10,
\* of sacla3_oxford.pvar for every other chip type.
C28_BlockListBelongsToChipType ==
    (last_op[1] = "block_check" /\ bc_next >= 1) =>
        bc_list = scrape_pvar_file(PvarFileOfChipType(gp1))

\* the button names of the lite map screen: rows A to H, columns 1 to 9
ButtonNames ==
    {<<ascii_uppercase[r], ToString(c)>> : r \in 1 .. 8, c \in 1 .. 9}

\* the labels 01 to 72
Labels == {fmt_02d(n) : n \in 1 .. 72}

\* C29: the Oxford block numbering built in load_lite_map is a bijection
\* from the block names (rows A to H, columns 1 to 9) to the labels 01 to
\* 72, and for columns 1 to 8 the label of a block is its 1-based position
\* in the block visiting sequence of get_shot_order.
C29_OxfordNumberingFollowsShotOrder ==
    last_op[1] = "load_lite_map" =>
        /\ dict_keys(block_dict) = ButtonNames
        /\ {dict_get(block_dict, b) : b \in ButtonNames} = Labels
        /\ \A b, c \in ButtonNames :
              dict_get(block_dict, b) = dict_get(block_dict, c) => b = c
        /\ Len(shot_block_list("1")) = 64
        /\ \A k \in DOMAIN shot_block_list("1") :
              dict_get(block_dict, shot_block_list("1")[k]) = fmt_02d(k)

\* a lite map that enables A2 and H2 has been loaded: H2, the ninth block
\* visited, is enabled as block 9 and A2, the sixteenth, as block 16, and
\* block 10 is left clear
C29_Witness ==
    /\ last_op[1] = "load_lite_map"
    /\ dict_get(block_dict, <<"H", "2">>) = "09"
    /\ block_pvs[9] = 1
    /\ block_pvs[16] = 1
    /\ block_pvs[10] = 0

\* the text of four decimals that stands for t (1e-4 mm) is the decimal
\* nearest to the readback v (1e-5 mm)
WrittenTo4Decimals(t, v) == 10 * t - v \in -5 .. 5

\* the readbacks of a point as its fiducial file holds them
ReadBack(point) == [i \in 1 .. 3 |-> fmt_1_4f(fid_read[point][i])]

\* C30: after fiducial(p) has written its file, scrape_mtr_fiducials(p)
\* returns the three readbacks (x, y, z) that fiducial read, to the four
\* decimals written, each from the f_value column of the line of its own
\* axis; cs_maker works from the values of the latest fiducial(1) and
\* fiducial(2), which it reads afresh at every call.
C30_FiducialRoundTrip ==
    /\ \A point \in FiducialPoints :
          last_op = <<"fiducial", ToString(point)>> =>
              LET f == scrape_mtr_fiducials(fiducial_file[point])
              IN  \A i \in 1 .. 3 :
                    /\ WrittenTo4Decimals(f[i], fid_read[point][i])
                    /\ fiducial_file[point][i + 1][1] = "MTR" \o ToString(i)
                    /\ fiducial_file[point][i + 1][5] = f[i]
    /\ (last_op[1] = "cs_maker" /\ raised = "none" /\ fid_read # <<>>) =>
          calls = <<caget("me14e_gp1")>> \o
              cs_maker_send(gp1,
                  cs_strings(cs_factors(
                      scrape_mtr_directions(motor_direction),
                      cs_angles(gp1, ReadBack(1), ReadBack(2)))))

\* cs_maker has run after both fiducials were recorded anew, at different
\* places and with digits beyond the fourth decimal, and the stage has
\* moved on since
C30_Witness ==
    /\ last_op[1] = "cs_maker"
    /\ raised = "none"
    /\ fid_read # <<>>
    /\ fid_read[1] = <<2540003, 1234, -506>>
    /\ fid_read[2] = <<-1007, 2540018, 249>>
    /\ stage.rbv = <<12, -7, 4>>

====
